---- MODULE Spec2Model ----
(***************************************************************************)
(* Verification model of the cine-recommender backend: the title           *)
(* normaliser and the eight versions of the recommendations handler        *)
(* (generative service first, then the catalog or the local fallback).     *)
(* Strings are sequences of one-character strings so that the string       *)
(* functions are computed, not assumed.                                    *)
(***************************************************************************)
EXTENDS Integers, Sequences, FiniteSets, TLC

(***************************************************************************)
(* Bounds of the model.                                                    *)
(***************************************************************************)
\* longest raw title fed to the normaliser on its own
MaxLen == 4
\* longest ratings array of a request
MaxRatings == 2
\* longest recommendations array in a generative answer
MaxCands == 2
\* longest results array in a catalog answer
MaxResults == 2
\* catalog fetches are counted up to this many
MaxCounted == 2
\* longest pending list of the requests that exercise the blocked set
MaxPending == 2

(***************************************************************************)
(* Strings.                                                                *)
(***************************************************************************)
\* A JavaScript value that is undefined or null where a string is expected.
Null == <<"null">>

Space == " "
Letters == {"a", "A"}
Puncts == {"-"}
Chars == Letters \cup Puncts \cup {Space, "(", ")"}

RECURSIVE StringsOfLen(_)
StringsOfLen(n) ==
  IF n = 0 THEN {<<>>}
  ELSE {Append(s, c) : s \in StringsOfLen(n - 1), c \in Chars}

StringsUpTo(n) == UNION {StringsOfLen(k) : k \in 0..n}

\* String.prototype.toLowerCase
LowerChar(c) == IF c = "A" THEN "a" ELSE c
toLowerCase(s) == [i \in 1..Len(s) |-> LowerChar(s[i])]

\* String.prototype.trim
RECURSIVE TrimLeft(_)
TrimLeft(s) ==
  IF s # <<>> /\ Head(s) = Space THEN TrimLeft(Tail(s)) ELSE s

RECURSIVE TrimRight(_)
TrimRight(s) ==
  IF s # <<>> /\ s[Len(s)] = Space THEN TrimRight(SubSeq(s, 1, Len(s) - 1)) ELSE s

trim(s) == TrimRight(TrimLeft(s))

\* s.slice(i - 1) matches /^\s*\([^)]*\)\s*$/
ParenSuffixAt(s, i) ==
  \E k \in i..Len(s) : \E j \in (k + 1)..Len(s) :
    /\ \A m \in i..(k - 1) : s[m] = Space
    /\ s[k] = "("
    /\ \A m \in (k + 1)..(j - 1) : s[m] # ")"
    /\ s[j] = ")"
    /\ \A m \in (j + 1)..Len(s) : s[m] = Space

\* t.replace(/\s*\([^)]*\)\s*$/g, ""): the leftmost match is removed
StripTrailingParen(s) ==
  LET starts == {i \in 1..Len(s) : ParenSuffixAt(s, i)}
  IN IF starts = {} THEN s
     ELSE SubSeq(s, 1, (CHOOSE i \in starts : \A k \in starts : i <= k) - 1)

\* t.replace(/\s+/g, " ")
RECURSIVE CollapseSpaces(_)
CollapseSpaces(s) ==
  IF s = <<>> THEN <<>>
  ELSE IF Head(s) = Space
       THEN <<Space>> \o CollapseSpaces(TrimLeft(s))
       ELSE <<Head(s)>> \o CollapseSpaces(Tail(s))

\* t.replace(/[:\-–_]/g, "")
IsStrippedPunct(c) == c \in Puncts

StripPunct(s) == SelectSeq(s, LAMBDA c : ~IsStrippedPunct(c))

\* normalizeTitle(raw)
normalizeTitle(raw) ==
  IF raw = Null \/ raw = <<>> THEN <<>>
  ELSE trim(StripPunct(CollapseSpaces(StripTrailingParen(trim(toLowerCase(raw))))))

\* the key of the handlers that do not normalise: title.toLowerCase().trim()
LowerTrim(raw) == trim(toLowerCase(raw))

(***************************************************************************)
(* Values of the requests and of the external answers.                     *)
(***************************************************************************)
tAlpha == <<"a">>
tAlphaUpper == <<"A", " ">>
tAlphaYear == <<"a", " ", "(", "a", ")">>
tBeta == <<"b">>
tBlank == <<" ">>

\* an absent or falsy tmdbId (undefined, null, 0)
NoId == 0

SeqsUpTo(S, n) == UNION {[1..k -> S] : k \in 0..n}

\* ratings[i]: IncomingRating
RatedPool ==
  { [tmdbId |-> 1, title |-> tAlpha, overall |-> 5, disfrute |-> 9],
    [tmdbId |-> 2, title |-> Null, overall |-> 9, disfrute |-> 5],
    [tmdbId |-> 3, title |-> tBlank, overall |-> 9, disfrute |-> 5] }

\* a value of req.body.ratings that is not an array
NotArray == <<[tmdbId |-> NoId, title |-> <<"!">>, overall |-> 0, disfrute |-> 0]>>

RatingsValues == SeqsUpTo(RatedPool, MaxRatings) \cup {NotArray}

\* pending[i]: IncomingPending
PendingPool ==
  { [tmdbId |-> NoId, title |-> tBeta],
    [tmdbId |-> 4, title |-> tBeta],
    [tmdbId |-> 4, title |-> Null] }

\* req.body.pending is absent, or a list; pendingTmdbIds comes from old clients
NoPending == [isArray |-> FALSE, items |-> <<>>, ids |-> <<>>]

PendingValues ==
  {NoPending,
   [isArray |-> FALSE, items |-> <<>>, ids |-> <<4>>],
   [isArray |-> TRUE, items |-> <<>>, ids |-> <<>>]}
  \cup {[isArray |-> TRUE, items |-> <<p>>, ids |-> <<>>] : p \in PendingPool}

\* the pending lists of up to MaxPending items, in every order
PendingLists ==
  {NoPending, [isArray |-> FALSE, items |-> <<>>, ids |-> <<4>>]}
  \cup {[isArray |-> TRUE, items |-> l, ids |-> <<>>] : l \in SeqsUpTo(PendingPool, MaxPending)}

\* a value of req.body.maxItems that is not a number: the string "x"
NotNumber == <<0, 0>>

\* maxItems: absent (<<>>) or a number
MaxItemsValues == {<<>>, <<1>>}

\* maxItems: absent, a number that is positive, zero or negative, or not a number
MaxItemsChecked == {<<>>, <<1>>, <<0>>, <<-1>>, NotNumber}

Requests ==
  [method : {"POST", "GET"}, uid : {"u", ""}, ratings : RatingsValues,
   pending : PendingValues, maxItems : MaxItemsValues]

\* process.env
Envs == [gemini : BOOLEAN, tmdb : BOOLEAN]

\* one element of the recommendations array written by the generative service
rReason == <<"r">>
GeminiItemPool ==
  { [isObj |-> TRUE, tmdbId |-> 5, title |-> tAlphaUpper, reason |-> rReason],
    [isObj |-> TRUE, tmdbId |-> 2, title |-> tAlphaYear, reason |-> rReason],
    [isObj |-> TRUE, tmdbId |-> 1, title |-> tBlank, reason |-> rReason] }

\* what the call to the generative service can come back with
\* candidates whose reason is missing, or is whitespace
ReasonlessPool ==
  {[isObj |-> TRUE, tmdbId |-> NoId, title |-> tAlphaYear, reason |-> w] :
     w \in {Null, tBlank}}

GeminiOutcomes ==
  {[kind |-> k, items |-> <<>>] : k \in {"throw", "status", "unparsed", "null", "notlist"}}
  \cup {[kind |-> k, items |-> l] :
          k \in {"direct", "embedded"}, l \in SeqsUpTo(GeminiItemPool, MaxCands)}
  \cup {[kind |-> "direct", items |-> <<r>>] : r \in ReasonlessPool}

\* one element of json.results of the catalog
CatalogPool ==
  { [id |-> 1, title |-> Null],
    [id |-> 5, title |-> tBeta] }

\* what GET /movie/{id}/recommendations can come back with
RecsOutcomes ==
  {[kind |-> k, results |-> <<>>] : k \in {"throw", "status"}}
  \cup {[kind |-> "ok", results |-> l] : l \in SeqsUpTo(CatalogPool, MaxResults)}

\* what GET /search/movie can come back with: an error, or results[0].id
SearchOutcomes ==
  {[kind |-> k, id |-> NoId] : k \in {"throw", "status", "empty"}}
  \cup {[kind |-> "ok", id |-> i] : i \in {1, 7}}

\* what GET /movie/{id} can come back with: the fetch throws, or there is an answer
\* (its title, or the placeholder on a non-success status, goes into the reason only)
MovieOutcomes == {"throw", "answer"}

\* what GET /movie/{id} gives fetchTitleYearFromTmdb: an error, or data.title
TitleOutcomes ==
  {[kind |-> k, title |-> Null] : k \in {"throw", "status"}}
  \cup {[kind |-> "ok", title |-> tAlphaYear]}

\* the versions of the recommendations endpoint in the repository
Variants == {"pending", "cand", "bothkeys", "local", "lower", "norm", "strict", "firebase"}

\* the versions whose fallback is fallbackSimpleFromTmdb
CatalogVariants == {"pending", "cand", "bothkeys"}

\* the versions whose fallback is localFallback
LocalVariants == {"local", "lower", "norm", "firebase"}

\* only the pending-aware version reads pending and pendingTmdbIds from the body
RequestsOf(v) ==
  IF v = "pending" THEN Requests ELSE {r \in Requests : r.pending = NoPending}

\* requests that pass the validation, with every kind of maxItems; of the pending
\* lists, none and the one whose item has to be looked up
RequestsMax(v) ==
  [method : {"POST"}, uid : {"u"}, ratings : SeqsUpTo(RatedPool, MaxRatings),
   pending : IF v = "pending"
             THEN {NoPending,
                   [isArray |-> TRUE, items |-> <<[tmdbId |-> NoId, title |-> tBeta]>>,
                    ids |-> <<>>]}
             ELSE {NoPending},
   maxItems : MaxItemsChecked]

\* requests to the pending-aware version that pass the validation, with every pending list
RequestsBlocked ==
  [method : {"POST"}, uid : {"u"}, ratings : SeqsUpTo(RatedPool, MaxRatings),
   pending : PendingLists, maxItems : {<<>>}]

(***************************************************************************)
(* State.                                                                  *)
(***************************************************************************)
VARIABLES
  variant,             \* which version of the recommendations endpoint is deployed
  env,                 \* GEMINI_API_KEY and TMDB_API_KEY are set
  req,                 \* the request being served
  pc,                  \* where the handler is
  max,                 \* const max
  ratings,             \* const ratings (rawRatings with the titles fetched for them)
  candidates,          \* the catalog candidates offered to the generative service
  sortedByOverall,     \* const sortedByOverall (baseMovies in the two-key version)
  seenIds,             \* const seenIds (ratedIdsSet in the versions that name it so)
  seenTitlesLower,     \* const seenTitlesLower (ratedTitlesSet likewise)
  pendingTitlesLower,  \* const pendingTitlesLower
  pendingIds,          \* const pendingIds
  lookups,             \* what each searchMovieOnTmdb of the pending loop came back with
  blockedIds,          \* const blockedIds
  blockedTitlesLower,  \* const blockedTitlesLower
  idx,                 \* position of the running for-of loop
  gemini,              \* the generative answer: its kind, its candidates, its survivors
  arr,                 \* const arr
  clean,               \* const clean
  enriched,            \* const enriched
  fbFrom,              \* the call site of the running fallbackSimpleFromTmdb
  fbResult,            \* result of the running fallbackSimpleFromTmdb
  res,                 \* the response sent
  geminiCalls,         \* fetches sent to the generative service
  tmdbCalls,           \* fetches sent to the catalog
  tiers,               \* tier events of this request, in order
  nRaw, nStage, nKey, nKey2, nAlt, nAltKey, nEdit,
  xHandler,            \* the handler that reads the generative text
  xText,               \* const textPart, by what JSON.parse makes of it
  xStage,              \* position in the extraction
  xTried,              \* the JSON.parse calls made, in order
  xParsed,             \* let parsed
  xOut,                \* what the handler did with parsed
  served,              \* the locals of each of two requests served interleaved
  chat,                \* the locals of the chat handler and its response
  runs,                \* the locals of each run of the weekly-event generator
  weeklyEvents,        \* the weeklyEvents collection: document id -> document
  writes,              \* the set() calls on weeklyEvents, in order
  clock,               \* the instant new Date() returns, and the zone of the process
  gen,                 \* the locals of the ratings-based weekly-event generator
  admin                \* lib/firebaseAdmin: let app, the environment, the calls made

hvars ==
  <<variant, env, req, pc, max, ratings, candidates, sortedByOverall, seenIds, seenTitlesLower, pendingTitlesLower,
    pendingIds, lookups, blockedIds, blockedTitlesLower, idx, gemini, arr, clean,
    enriched, fbFrom, fbResult, res, geminiCalls, tmdbCalls, tiers>>

gvars == <<chat, runs, weeklyEvents, writes, clock, gen, admin>>

xvars == <<xHandler, xText, xStage, xTried, xParsed, xOut, served, gvars>>

nvars == <<nRaw, nStage, nKey, nKey2, nAlt, nAltKey, nEdit, xvars>>

vars == <<hvars, nvars>>

(***************************************************************************)
(* Pure parts of the handlers.                                             *)
(***************************************************************************)
Truthy(s) == s # Null /\ s # <<>>

DefaultMax == 15

\* typeof maxItems === "number" && maxItems > 0 ? maxItems : 15
MaxOf(maxItems) ==
  IF maxItems # <<>> /\ maxItems # NotNumber /\ maxItems[1] > 0
  THEN maxItems[1] ELSE DefaultMax

\* (req.body.maxItems as number | undefined) ?? 15; the string "x" is kept as it is,
\* and both Math.min("x", n) and slice(0, "x") then count it as 0
MaxOfFirebase(maxItems) ==
  IF maxItems = <<>> THEN DefaultMax
  ELSE IF maxItems = NotNumber THEN 0
  ELSE maxItems[1]

Min(a, b) == IF a <= b THEN a ELSE b

\* a response that is not cut to max
NoSlice(list, n) == list

\* list.slice(0, n); a negative n counts from the end of the list
Slice(list, n) ==
  IF n >= 0 THEN SubSeq(list, 1, Min(n, Len(list)))
  ELSE IF Len(list) + n >= 1 THEN SubSeq(list, 1, Len(list) + n)
  ELSE <<>>

\* [...ratings].sort((a, b) => b.overall - a.overall): stable, best first
RECURSIVE InsertByOverall(_, _)
InsertByOverall(sorted, r) ==
  IF sorted = <<>> THEN <<r>>
  ELSE IF Head(sorted).overall >= r.overall
       THEN <<Head(sorted)>> \o InsertByOverall(Tail(sorted), r)
       ELSE <<r>> \o sorted

RECURSIVE SortByOverall(_)
SortByOverall(list) ==
  IF list = <<>> THEN <<>>
  ELSE InsertByOverall(SortByOverall(SubSeq(list, 1, Len(list) - 1)), list[Len(list)])

\* the comparator of sorted: by disfrute, then by overall; a goes before b or ties
DisfruteFirst(a, b) ==
  IF b.disfrute # a.disfrute THEN a.disfrute > b.disfrute ELSE a.overall >= b.overall

RECURSIVE InsertByDisfrute(_, _)
InsertByDisfrute(sorted, r) ==
  IF sorted = <<>> THEN <<r>>
  ELSE IF DisfruteFirst(Head(sorted), r)
       THEN <<Head(sorted)>> \o InsertByDisfrute(Tail(sorted), r)
       ELSE <<r>> \o sorted

RECURSIVE SortByDisfrute(_)
SortByDisfrute(list) ==
  IF list = <<>> THEN <<>>
  ELSE InsertByDisfrute(SortByDisfrute(SubSeq(list, 1, Len(list) - 1)), list[Len(list)])

\* sorted.slice(0, Math.min(5, sorted.length))
baseCount == 5

BaseMovies(list) == Slice(SortByDisfrute(list), baseCount)

\* sortedByOverall.slice(0, 10)
topCount == 10

Range(f) == {f[i] : i \in DOMAIN f}

\* a filter that lets the empty key through
AnyKey(t) == TRUE

\* the !!t filter of seenTitlesLower, the if (t) of pendingTitlesLower, the
\* t.length > 0 filter of ratedTitlesSet and the if (!t) return false of the filters
UsableKey(t) == t # <<>>

\* new Set(ratings.map(r => r.title?.toLowerCase().trim()).filter(t => !!t))
SeenTitlesLower(list) ==
  {k \in {LowerTrim(r.title) : r \in {x \in Range(list) : x.title # Null}} : UsableKey(k)}

\* new Set(ratings.map(r => (r.title ?? "").toLowerCase().trim()).filter(t => t.length > 0))
RatedTitlesLower(list) ==
  {k \in {LowerTrim(IF r.title = Null THEN <<>> ELSE r.title) : r \in Range(list)} :
     UsableKey(k)}

\* new Set(ratings.map(r => normalizeTitle(r.title)).filter(t => t.length > 0))
RatedTitlesNorm(list) ==
  {k \in {normalizeTitle(r.title) : r \in Range(list)} : UsableKey(k)}

\* new Set(ratings.map(r => r.tmdbId))
SeenIds(list) == {r.tmdbId : r \in Range(list)}

\* new Set(ratings.map(r => r.tmdbId).filter(id => typeof id === "number" && id > 0))
RatedIds(list) == {r.tmdbId : r \in {x \in Range(list) : x.tmdbId > 0}}

\* for (const p of pending) { if (!p?.title) continue; ... if (t) add(t) }
PendingTitlesLower(pending) ==
  IF ~pending.isArray THEN {}
  ELSE {k \in {LowerTrim(p.title) : p \in {x \in Range(pending.items) : Truthy(x.title)}} :
          UsableKey(k)}

\* a collection that stops after the first pending item
FirstPendingIdOnly(pending) ==
  Range(pending.ids) \cup
  (IF pending.isArray /\ pending.items # <<>> /\ pending.items[1].tmdbId # NoId
   THEN {pending.items[1].tmdbId}
   ELSE {})

\* pendingTmdbIds filtered to numbers, plus every pending[i].tmdbId that is set
PendingIdsDirect(pending) ==
  Range(pending.ids) \cup
  (IF pending.isArray
   THEN {p.tmdbId : p \in {x \in Range(pending.items) : x.tmdbId # NoId}}
   ELSE {})

\* a lookup whose result is lost
NothingFound(o) == NoId

\* the value returned by searchMovieOnTmdb (undefined is NoId)
SearchResult(o) == IF o.kind = "ok" THEN o.id ELSE NoId

\* parsed.recommendations when it is an array, else []
ParsedArr(g) == IF g.kind \in {"direct", "embedded"} THEN g.items ELSE <<>>

\* a filter that also drops the titles with spaces around them
TrimmedTitleOnly(r, blockedTitles) ==
  /\ r.isObj
  /\ Truthy(r.title)
  /\ Truthy(r.reason)
  /\ r.title = trim(r.title)
  /\ LowerTrim(r.title) \notin blockedTitles

\* the predicate of arr.filter(...) that builds clean
CleanKeeps(r, blockedTitles) ==
  /\ r.isObj
  /\ Truthy(r.title)
  /\ Truthy(r.reason)
  /\ UsableKey(LowerTrim(r.title))
  /\ LowerTrim(r.title) \notin blockedTitles

CleanOf(list, blockedTitles) == SelectSeq(list, LAMBDA r : CleanKeeps(r, blockedTitles))

\* a filter that drops the candidates without an id
KnownIdOnly(r, blocked) == r.tmdbId # NoId /\ r.tmdbId \notin blocked

\* the predicate of enriched.filter(...) that builds finalRecs
FinalKeeps(r, blocked) == r.tmdbId = NoId \/ r.tmdbId \notin blocked

FinalOf(list, blocked) == SelectSeq(list, LAMBDA r : FinalKeeps(r, blocked))

\* r && r.title && r.title.toString().trim().length > 0
HasTitle(r) == r.isObj /\ Truthy(r.title) /\ trim(r.title) # <<>>

\* the second cleaned.filter(...) of the version that compares lower-cased titles
LowerKeeps(r, ratedTitles) ==
  /\ HasTitle(r)
  /\ UsableKey(LowerTrim(r.title))
  /\ LowerTrim(r.title) \notin ratedTitles

\* the second cleaned.filter(...) of the versions that compare normalised titles
NormKeeps(r, ratedTitles, ratedIds) ==
  /\ HasTitle(r)
  /\ UsableKey(normalizeTitle(r.title))
  /\ normalizeTitle(r.title) \notin ratedTitles
  /\ ~(r.tmdbId # NoId /\ r.tmdbId \in ratedIds)

\* a filter that takes any numeric id, offered or not
AnyNumericId(r, candidateIds) ==
  /\ r.isObj
  /\ r.tmdbId # NoId
  /\ r.title # Null /\ trim(r.title) # <<>>
  /\ r.reason # Null /\ trim(r.reason) # <<>>

\* the filter over arr of the version that offers catalog candidates to the service
CandidateKeeps(r, candidateIds) ==
  /\ r.isObj
  /\ r.tmdbId # NoId
  /\ r.tmdbId \in candidateIds
  /\ r.title # Null /\ trim(r.title) # <<>>
  /\ r.reason # Null /\ trim(r.reason) # <<>>

\* the filtering each version applies to arr
KeptOf(v, list, titles, ids, candidateIds) ==
  CASE v = "pending" -> CleanOf(list, titles)
    [] v = "lower" -> SelectSeq(list, LAMBDA r : LowerKeeps(r, titles))
    [] v \in {"norm", "strict"} -> SelectSeq(list, LAMBDA r : NormKeeps(r, titles, ids))
    [] v = "bothkeys" -> SelectSeq(list, LAMBDA r : CandidateKeeps(r, candidateIds))
    [] OTHER -> SelectSeq(list, HasTitle)

\* an element of arr as it is written to the response; src tells the origin apart
AsRec(r) ==
  [tmdbId |-> r.tmdbId, title |-> r.title, reason |-> r.reason, src |-> "gemini"]

AsRecs(list) == [i \in DOMAIN list |-> AsRec(list[i])]

\* `Pelicula ${id}`
Placeholder(id) == <<"#", ToString(id)>>

\* the reason text of localFallback
localReason == <<"l">>

\* sortedByOverall.slice(0, Math.min(max, sortedByOverall.length)).map(...)
LocalFallback(sorted, n) ==
  [i \in DOMAIN Slice(sorted, Min(n, Len(sorted))) |->
     [tmdbId |-> sorted[i].tmdbId,
      title |-> IF sorted[i].title = Null THEN Placeholder(sorted[i].tmdbId)
                ELSE sorted[i].title,
      reason |-> localReason, src |-> "local"]]

\* the limits handed to fetchRecommendedFromTmdb: by the fallback, by the candidates loop
limitPerBase == 5
maxPerBase == 10

\* the if (...) continue tests of fetchRecommendedFromTmdb
RecKeeps(v, r, blocked) ==
  /\ r.id # NoId
  /\ r.id \notin blocked
  /\ v = "bothkeys" => (r.title # Null /\ trim(r.title) # <<>>)

\* the list returned by fetchRecommendedFromTmdb for json.results
RecommendedOf(v, results, blocked, limit) ==
  LET kept == SelectSeq(results, LAMBDA r : RecKeeps(v, r, blocked))
  IN [i \in 1..Min(limit, Len(kept)) |->
        [tmdbId |-> kept[i].id,
         title |-> IF Truthy(kept[i].title) THEN kept[i].title ELSE Placeholder(kept[i].id)]]

\* the reason text of fallbackSimpleFromTmdb
fallbackReason == <<"f">>

\* the inner for-of of fallbackSimpleFromTmdb over recs
RECURSIVE PushRecs(_, _, _, _)
PushRecs(result, recs, cap, blocked) ==
  IF recs = <<>> \/ Len(result) >= cap THEN result
  ELSE LET rec == Head(recs)
           skip == \/ rec.tmdbId \in blocked
                   \/ \E i \in DOMAIN result : result[i].tmdbId = rec.tmdbId
       IN PushRecs(
            IF skip THEN result
            ELSE Append(result, [tmdbId |-> rec.tmdbId, title |-> rec.title,
                                 reason |-> fallbackReason, src |-> "tmdb"]),
            Tail(recs), cap, blocked)

\* candidateMap holds at most this many candidates
maxCandidates == 80

\* the inner for-of of the candidates loop: candidateMap.set / candidates.push
RECURSIVE AddCandidates(_, _, _, _)
AddCandidates(v, list, recs, seen) ==
  IF recs = <<>> \/ (v = "cand" /\ Len(list) >= maxCandidates) THEN list
  ELSE LET rec == Head(recs)
           skip == \/ v = "cand" /\ rec.tmdbId \in seen
                   \/ \E i \in DOMAIN list : list[i].tmdbId = rec.tmdbId
       IN AddCandidates(v, IF skip THEN list ELSE Append(list, rec), Tail(recs), seen)

(***************************************************************************)
(* The handlers: export default async function handler, recommendMovies.   *)
(***************************************************************************)
NoRes == [status |-> 0, recs |-> <<>>, info |-> "none"]
NoGemini == [kind |-> "none", n |-> 0, survivors |-> 0]

(***************************************************************************)
(* The text of the generative answer, by what JSON.parse makes of it.      *)
(* A JSON value is its type and, for an object, the field the handler      *)
(* reads as its list (recommendations, movies or candidates).              *)
(***************************************************************************)
NullElem == [isObj |-> FALSE, tmdbId |-> NoId, title |-> Null, reason |-> Null]

\* list elements: null, an object without title, a complete object
ElemPool ==
  { NullElem,
    [isObj |-> TRUE, tmdbId |-> NoId, title |-> Null, reason |-> rReason],
    [isObj |-> TRUE, tmdbId |-> NoId, title |-> tBeta, reason |-> rReason] }

JValue(t, f, l) == [t |-> t, field |-> f, items |-> l]

\* the text is not JSON
Invalid == JValue("invalid", "none", <<>>)

\* the regular expression finds no {...} in the text
NoSpan == JValue("nospan", "none", <<>>)

\* let parsed = {}
EmptyObject == JValue("object", "absent", <<>>)

JValues ==
  {JValue(t, "none", <<>>) : t \in {"null", "number", "string", "array"}}
  \cup {JValue("object", f, <<>>) : f \in {"absent", "notlist"}}
  \cup {JValue("object", "list", l) : l \in SeqsUpTo(ElemPool, MaxCands)}

\* whole: JSON.parse(textPart); span: JSON.parse(match[0]), read only when
\* the first has thrown
Texts ==
  {[whole |-> v, span |-> NoSpan] : v \in JValues}
  \cup {[whole |-> Invalid, span |-> v] : v \in JValues \cup {Invalid, NoSpan}}

ExtractHandlers == {"recommendations", "chat", "weekly"}

NoOut == [status |-> 0, n |-> 0, via |-> "none"]

ExtractIdle ==
  /\ xHandler = "none" /\ xText = [whole |-> NoSpan, span |-> NoSpan]
  /\ xStage = "idle" /\ xTried = <<>> /\ xParsed = EmptyObject /\ xOut = NoOut
  /\ served = <<>>

GeneratorsIdle ==
  /\ chat = <<>> /\ runs = <<>> /\ weeklyEvents = <<>> /\ writes = <<>>
  /\ clock = <<>> /\ gen = <<>> /\ admin = <<>>

NormOff ==
  /\ nRaw = <<>> /\ nStage = "idle" /\ nKey = <<>> /\ nKey2 = <<>>
  /\ nAlt = <<>> /\ nAltKey = <<>> /\ nEdit = "none"
  /\ ExtractIdle

NormIdle == NormOff /\ GeneratorsIdle

HandlerIdle ==
  /\ max = 0 /\ ratings = <<>> /\ candidates = <<>> /\ sortedByOverall = <<>>
  /\ seenIds = {} /\ seenTitlesLower = {}
  /\ pendingTitlesLower = {} /\ pendingIds = {} /\ lookups = <<>> /\ blockedIds = {}
  /\ blockedTitlesLower = {} /\ idx = 0 /\ gemini = NoGemini /\ arr = <<>>
  /\ clean = <<>> /\ enriched = <<>> /\ fbFrom = "none" /\ fbResult = <<>>
  /\ res = NoRes /\ geminiCalls = 0 /\ tmdbCalls = 0 /\ tiers = <<>>

Init ==
  /\ variant \in Variants
  /\ env \in Envs
  /\ req \in RequestsOf(variant)
  /\ pc = "start"
  /\ HandlerIdle
  /\ NormIdle

\* n more fetches were sent to the catalog
Fetched(n) == tmdbCalls' = Min(tmdbCalls + n, MaxCounted)

\* res.status(status).json({...}) and return
Respond(status, recs, info) ==
  /\ res' = [status |-> status, recs |-> recs, info |-> info]
  /\ pc' = "done"

\* without GEMINI_API_KEY: the response that carries localFallback as it is
ReturnLocal(info) ==
  /\ Respond(200, LocalFallback(sortedByOverall', max'), info)
  /\ tiers' = Append(tiers, "L")

\* finalRecs = localFallback, and the response with finalRecs.slice(0, max)
UseLocal(events, info) ==
  /\ Respond(200, Slice(LocalFallback(sortedByOverall', max'), max'), info)
  /\ tiers' = Append(events, "L")

\* a handler that stops where it should call fallbackSimpleFromTmdb
NoFallbackAfter(events, from) ==
  /\ fbFrom' = from
  /\ fbResult' = <<>>
  /\ idx' = 1
  /\ tiers' = events
  /\ arr' = <<>>
  /\ clean' = <<>>
  /\ enriched' = <<>>
  /\ pc' = "done"

\* a call site of fallbackSimpleFromTmdb(sortedByOverall, max, blockedIds); arr,
\* clean and enriched are never read again once it runs, and the model drops them
StartFallbackAfter(events, from) ==
  /\ fbFrom' = from
  /\ fbResult' = <<>>
  /\ idx' = 1
  /\ tiers' = Append(events, "F")
  /\ arr' = <<>>
  /\ clean' = <<>>
  /\ enriched' = <<>>
  /\ pc' = "fallback"

StartFallback(from) == StartFallbackAfter(tiers, from)

\* what the handler computes between the validation and its first await
Prepare ==
  CASE variant = "pending" ->
         /\ max' = MaxOf(req.maxItems)
         /\ ratings' = req.ratings
         /\ sortedByOverall' = SortByOverall(req.ratings)
         /\ seenIds' = SeenIds(req.ratings)
         /\ seenTitlesLower' = SeenTitlesLower(req.ratings)
         /\ pendingTitlesLower' = PendingTitlesLower(req.pending)
         /\ pendingIds' = PendingIdsDirect(req.pending)
         /\ idx' = 1
         /\ pc' = "resolve"
         /\ UNCHANGED <<lookups, res, tiers>>
    [] variant = "cand" ->
         /\ max' = MaxOf(req.maxItems)
         /\ ratings' = req.ratings
         /\ sortedByOverall' = SortByOverall(req.ratings)
         /\ seenIds' = SeenIds(req.ratings)
         /\ idx' = 1
         /\ pc' = "candidates"
         /\ UNCHANGED <<seenTitlesLower, pendingTitlesLower, pendingIds, lookups, res, tiers>>
    [] variant = "bothkeys" ->
         /\ max' = MaxOf(req.maxItems)
         /\ ratings' = req.ratings
         /\ IF ~env.gemini \/ ~env.tmdb
            THEN /\ Respond(500, <<>>, "faltan_claves")
                 /\ UNCHANGED <<sortedByOverall, seenIds, idx>>
            ELSE /\ sortedByOverall' = BaseMovies(req.ratings)
                 /\ seenIds' = RatedIds(req.ratings)
                 /\ idx' = 1
                 /\ pc' = "candidates"
                 /\ UNCHANGED res
         /\ UNCHANGED <<seenTitlesLower, pendingTitlesLower, pendingIds, lookups, tiers>>
    [] variant \in {"local", "lower", "firebase"} ->
         /\ max' = IF variant = "firebase" THEN MaxOfFirebase(req.maxItems)
                   ELSE MaxOf(req.maxItems)
         /\ ratings' = req.ratings
         /\ sortedByOverall' = SortByOverall(req.ratings)
         /\ seenTitlesLower' = IF variant = "lower" THEN RatedTitlesLower(req.ratings)
                               ELSE seenTitlesLower
         /\ IF ~env.gemini
            THEN ReturnLocal("solo_locales")
            ELSE pc' = "gemini" /\ UNCHANGED <<res, tiers>>
         /\ UNCHANGED <<seenIds, pendingTitlesLower, pendingIds, lookups, idx>>
    [] variant = "norm" ->
         /\ max' = MaxOf(req.maxItems)
         /\ ratings' = req.ratings
         /\ idx' = 1
         /\ pc' = "titles"
         /\ UNCHANGED <<sortedByOverall, seenIds, seenTitlesLower, pendingTitlesLower,
                        pendingIds, lookups, res, tiers>>
    [] variant = "strict" ->
         /\ max' = MaxOf(req.maxItems)
         /\ ratings' = req.ratings
         /\ IF ~env.gemini
            THEN Respond(500, <<>>, "falta_gemini_api_key") /\ UNCHANGED idx
            ELSE pc' = "titles" /\ idx' = 1 /\ UNCHANGED res
         /\ UNCHANGED <<sortedByOverall, seenIds, seenTitlesLower, pendingTitlesLower,
                        pendingIds, lookups, tiers>>

\* a validation that looks at uid alone
MissingUidOnly(r) == r.uid = ""

\* !uid || !Array.isArray(ratings)
MissingInput(r) == r.uid = "" \/ r.ratings = NotArray

\* a handler without the early return for an empty ratings array
NeverNoRatings(r) == FALSE

\* ratings.length === 0
NoRatings(r) == Len(r.ratings) = 0

\* from the method check to the first await, or to an early response
Validate ==
  /\ pc = "start"
  /\ UNCHANGED <<variant, env, req, candidates, blockedIds, blockedTitlesLower, gemini,
                 arr, clean, enriched, fbFrom, fbResult, geminiCalls, tmdbCalls, nvars>>
  /\ IF req.method # "POST"
     THEN /\ Respond(405, <<>>, "metodo_no_permitido")
          /\ UNCHANGED <<max, ratings, sortedByOverall, seenIds, seenTitlesLower,
                         pendingTitlesLower, pendingIds, lookups, idx, tiers>>
     ELSE IF MissingInput(req)
     THEN /\ Respond(400, <<>>, "uid_y_ratings_obligatorios")
          /\ UNCHANGED <<max, ratings, sortedByOverall, seenIds, seenTitlesLower,
                         pendingTitlesLower, pendingIds, lookups, idx, tiers>>
     ELSE IF NoRatings(req)
     THEN /\ Respond(200, <<>>, "sin_valoraciones")
          /\ UNCHANGED <<max, ratings, sortedByOverall, seenIds, seenTitlesLower,
                         pendingTitlesLower, pendingIds, lookups, idx, tiers>>
     ELSE Prepare

\* one element of: Promise.all(rawRatings.map(async r => ... fetchTitleYearFromTmdb))
FetchTitle ==
  /\ pc = "titles"
  /\ idx <= Len(ratings)
  /\ IF Truthy(ratings[idx].title) \/ ~env.tmdb
     THEN UNCHANGED <<ratings, tmdbCalls>>
     ELSE \E o \in TitleOutcomes :
            /\ Fetched(1)
            /\ ratings' = [ratings EXCEPT ![idx].title = o.title]
  /\ idx' = idx + 1
  /\ UNCHANGED <<variant, env, req, pc, max, candidates, sortedByOverall, seenIds,
                 seenTitlesLower, pendingTitlesLower, pendingIds, lookups, blockedIds,
                 blockedTitlesLower, gemini, arr, clean, enriched, fbFrom, fbResult,
                 res, geminiCalls, tiers, nvars>>

\* ratedTitlesSet, ratedIdsSet, and in the version that has one the local fallback
TitlesDone ==
  /\ pc = "titles"
  /\ idx > Len(ratings)
  /\ seenTitlesLower' = RatedTitlesNorm(ratings)
  /\ seenIds' = RatedIds(ratings)
  /\ UNCHANGED max
  /\ IF variant = "norm"
     THEN /\ sortedByOverall' = SortByOverall(ratings)
          /\ IF ~env.gemini
             THEN ReturnLocal("solo_locales")
             ELSE pc' = "gemini" /\ UNCHANGED <<res, tiers>>
     ELSE pc' = "gemini" /\ UNCHANGED <<sortedByOverall, res, tiers>>
  /\ UNCHANGED <<variant, env, req, ratings, candidates, pendingTitlesLower, pendingIds, lookups,
                 blockedIds, blockedTitlesLower, idx, gemini, arr, clean, enriched,
                 fbFrom, fbResult, geminiCalls, tmdbCalls, nvars>>

\* the ratings the candidates loop goes over: topForTmdb, or baseMovies
CandidateBases ==
  IF variant = "cand" THEN Slice(sortedByOverall, topCount) ELSE sortedByOverall

\* one pass of the candidates loop: fetchMovieBasicFromTmdb, fetchRecommendedFromTmdb;
\* only the helpers of the two-key version catch what fetch throws
BuildCandidates ==
  /\ pc = "candidates"
  /\ idx <= Len(CandidateBases)
  /\ IF ~env.tmdb
     THEN /\ idx' = idx + 1
          /\ UNCHANGED <<candidates, tmdbCalls, res, pc>>
     ELSE \E m \in MovieOutcomes : \E o \in RecsOutcomes :
            IF variant = "cand" /\ m = "throw"
            THEN /\ Fetched(1)
                 /\ Respond(500, <<>>, "error_interno")
                 /\ UNCHANGED <<candidates, idx>>
            ELSE IF variant = "cand" /\ o.kind = "throw"
            THEN /\ Fetched(2)
                 /\ Respond(500, <<>>, "error_interno")
                 /\ UNCHANGED <<candidates, idx>>
            ELSE /\ Fetched(2)
                 /\ candidates' =
                      AddCandidates(variant, candidates,
                                    RecommendedOf(variant, o.results, seenIds, maxPerBase),
                                    seenIds)
                 /\ idx' = idx + 1
                 /\ UNCHANGED <<res, pc>>
  /\ UNCHANGED <<variant, env, req, max, ratings, sortedByOverall, seenIds,
                 seenTitlesLower, pendingTitlesLower, pendingIds, lookups, blockedIds,
                 blockedTitlesLower, gemini, arr, clean, enriched, fbFrom, fbResult,
                 geminiCalls, tiers, nvars>>

\* after the candidates loop: the fallback when there is no candidate, the key check
CandidatesDone ==
  /\ pc = "candidates"
  /\ idx > Len(CandidateBases)
  /\ IF candidates = <<>>
     THEN StartFallback("nocands") /\ UNCHANGED res
     ELSE /\ IF ~env.gemini
             THEN Respond(500, <<>>, "falta_gemini_api_key")
             ELSE pc' = "gemini" /\ UNCHANGED res
          /\ UNCHANGED <<fbFrom, fbResult, idx, tiers, arr, clean, enriched>>
  /\ UNCHANGED <<variant, env, req, max, ratings, candidates, sortedByOverall, seenIds,
                 seenTitlesLower, pendingTitlesLower, pendingIds, lookups, blockedIds,
                 blockedTitlesLower, gemini, geminiCalls, tmdbCalls, nvars>>

\* the loop that resolves pending titles runs only with a pending array and a key
Resolving == req.pending.isArray /\ env.tmdb /\ idx <= Len(req.pending.items)

\* one pass of: for (const p of pending) { try { await searchMovieOnTmdb } catch {} }
ResolvePending ==
  /\ pc = "resolve"
  /\ Resolving
  /\ LET p == req.pending.items[idx]
     IN IF ~Truthy(p.title)
        THEN UNCHANGED <<pendingIds, lookups, tmdbCalls>>
        ELSE \E o \in SearchOutcomes :
               /\ Fetched(1)
               /\ pendingIds' = pendingIds \cup ({SearchResult(o)} \ {NoId})
               /\ lookups' = Append(lookups, [ok |-> o.kind = "ok", id |-> o.id])
  /\ idx' = idx + 1
  /\ UNCHANGED <<variant, env, req, pc, max, ratings, candidates, sortedByOverall,
                 seenIds, seenTitlesLower, pendingTitlesLower, blockedIds,
                 blockedTitlesLower, gemini, arr, clean, enriched, fbFrom, fbResult,
                 res, geminiCalls, tiers, nvars>>

\* blockedIds, blockedTitlesLower, the prompt, and the GEMINI_API_KEY check
BuildBlocked ==
  /\ pc = "resolve"
  /\ ~Resolving
  /\ blockedIds' = seenIds \cup pendingIds
  /\ blockedTitlesLower' = seenTitlesLower \cup pendingTitlesLower
  /\ IF ~env.gemini
     THEN Respond(500, <<>>, "falta_gemini_api_key")
     ELSE pc' = "gemini" /\ UNCHANGED res
  /\ UNCHANGED <<variant, env, req, max, ratings, candidates, sortedByOverall, seenIds,
                 seenTitlesLower, pendingTitlesLower, pendingIds, lookups, idx, gemini, arr,
                 clean, enriched, fbFrom, fbResult, geminiCalls, tmdbCalls, tiers,
                 nvars>>

\* what is remembered of the answer of the generative service
Answer(g, kept) == [kind |-> g.kind, n |-> Len(g.items), survivors |-> Len(kept)]

\* pending-aware version: await fetch(gemini) and everything up to the next await
CallGeminiWith(g) ==
  /\ LET events == Append(tiers, "G")
         parsedArr == ParsedArr(g)
         kept == KeptOf(variant, parsedArr, blockedTitlesLower, blockedIds, {})
     IN /\ gemini' = Answer(g, kept)
        /\ geminiCalls' = geminiCalls + 1
        /\ CASE g.kind = "throw" -> StartFallbackAfter(events, "catch")
             [] g.kind = "status" -> StartFallbackAfter(events, "status")
             [] g.kind = "null" -> StartFallbackAfter(events, "catch")
             [] OTHER ->
                  IF kept = <<>>
                  THEN StartFallbackAfter(events, "empty")
                  ELSE /\ arr' = parsedArr
                       /\ clean' = kept
                       /\ enriched' = <<>>
                       /\ pc' = "enrich" /\ idx' = 1 /\ tiers' = events
                       /\ UNCHANGED <<fbFrom, fbResult>>
  /\ UNCHANGED <<variant, env, req, max, ratings, candidates, sortedByOverall, seenIds,
                 seenTitlesLower, pendingTitlesLower, pendingIds, lookups, blockedIds,
                 blockedTitlesLower, res, tmdbCalls, nvars>>

\* the generative service answers with one of its outcomes
CallGemini ==
  /\ pc = "gemini"
  /\ variant = "pending"
  /\ \E g \in GeminiOutcomes : CallGeminiWith(g)

\* the info text that goes with the list of the generative service
SuccessInfo(v) ==
  CASE v = "pending" -> "generadas_por_gemini"
    [] v = "cand" -> "devueltas_por_gemini"
    [] v = "bothkeys" -> "generadas_con_tmdb_e_ia"
    [] v = "strict" -> "ia_generadas"
    [] OTHER -> "ia_mas_fallback"

\* versions with catalog candidates: await fetch(gemini) up to the response or fallback
CallGeminiCandidates ==
  /\ pc = "gemini"
  /\ variant \in {"cand", "bothkeys"}
  /\ \E g \in GeminiOutcomes :
       LET events == Append(tiers, "G")
           kept == KeptOf(variant, ParsedArr(g), seenTitlesLower, seenIds,
                          {c.tmdbId : c \in Range(candidates)})
       IN /\ gemini' = Answer(g, kept)
          /\ geminiCalls' = geminiCalls + 1
          /\ CASE g.kind = "throw" -> StartFallbackAfter(events, "catch") /\ UNCHANGED res
               [] g.kind = "status" -> StartFallbackAfter(events, "status") /\ UNCHANGED res
               [] g.kind = "null" -> StartFallbackAfter(events, "catch") /\ UNCHANGED res
               [] OTHER ->
                    IF kept = <<>>
                    THEN StartFallbackAfter(events, "empty") /\ UNCHANGED res
                    ELSE /\ Respond(200, Slice(AsRecs(kept), max), SuccessInfo(variant))
                         /\ tiers' = events
                         /\ UNCHANGED <<fbFrom, fbResult, idx, arr, clean, enriched>>
  /\ UNCHANGED <<variant, env, req, max, ratings, candidates, sortedByOverall, seenIds,
                 seenTitlesLower, pendingTitlesLower, pendingIds, lookups, blockedIds,
                 blockedTitlesLower, tmdbCalls, nvars>>

\* versions with a local fallback: await fetch(gemini) up to the response
CallGeminiLocal ==
  /\ pc = "gemini"
  /\ variant \in LocalVariants
  /\ UNCHANGED <<max, sortedByOverall>>
  /\ \E g \in GeminiOutcomes :
       LET events == Append(tiers, "G")
           kept == KeptOf(variant, ParsedArr(g), seenTitlesLower, seenIds, {})
       IN /\ gemini' = Answer(g, kept)
          /\ geminiCalls' = geminiCalls + 1
          /\ IF g.kind \in {"throw", "status", "null"} \/ kept = <<>>
             THEN UseLocal(events, SuccessInfo(variant))
             ELSE /\ Respond(200, Slice(AsRecs(kept), max), SuccessInfo(variant))
                  /\ tiers' = events
  /\ UNCHANGED <<variant, env, req, ratings, candidates, seenIds, seenTitlesLower,
                 pendingTitlesLower, pendingIds, lookups, blockedIds, blockedTitlesLower, idx,
                 arr, clean, enriched, fbFrom, fbResult, tmdbCalls, nvars>>

\* version without a fallback: await fetch(gemini) up to the response
CallGeminiStrict ==
  /\ pc = "gemini"
  /\ variant = "strict"
  /\ \E g \in GeminiOutcomes :
       LET kept == KeptOf(variant, ParsedArr(g), seenTitlesLower, seenIds, {})
           finalRecs == Slice(AsRecs(kept), max)
       IN /\ gemini' = Answer(g, kept)
          /\ geminiCalls' = geminiCalls + 1
          /\ tiers' = Append(tiers, "G")
          /\ CASE g.kind = "status" -> Respond(200, <<>>, "error_en_gemini")
               [] g.kind \in {"throw", "null"} -> Respond(200, <<>>, "error_inesperado")
               [] OTHER ->
                    IF finalRecs = <<>>
                    THEN Respond(200, <<>>, "todas_vistas_o_no_validas")
                    ELSE Respond(200, finalRecs, SuccessInfo(variant))
  /\ UNCHANGED <<variant, env, req, max, ratings, candidates, sortedByOverall, seenIds,
                 seenTitlesLower, pendingTitlesLower, pendingIds, lookups, blockedIds,
                 blockedTitlesLower, idx, arr, clean, enriched, fbFrom, fbResult,
                 tmdbCalls, nvars>>

\* one pass of: for (const r of clean.slice(0, max)) { tmdbId = await search; push }
Enrich ==
  /\ pc = "enrich"
  /\ idx <= Len(Slice(clean, max))
  /\ LET r == clean[idx]
         push(id) == enriched' = Append(enriched,
                       [tmdbId |-> id, title |-> r.title, reason |-> r.reason,
                        src |-> "gemini"])
     IN IF ~env.tmdb
        THEN push(NoId) /\ UNCHANGED tmdbCalls
        ELSE \E o \in SearchOutcomes :
               push(SearchResult(o)) /\ Fetched(1)
  /\ idx' = idx + 1
  /\ UNCHANGED <<variant, env, req, pc, max, ratings, candidates, sortedByOverall,
                 seenIds, seenTitlesLower, pendingTitlesLower, pendingIds, lookups, blockedIds,
                 blockedTitlesLower, gemini, arr, clean, fbFrom, fbResult, res,
                 geminiCalls, tiers, nvars>>

\* finalRecs = enriched.filter(...), then the fallback or the response
Finish ==
  /\ pc = "enrich"
  /\ idx > Len(Slice(clean, max))
  /\ LET finalRecs == FinalOf(enriched, blockedIds)
     IN /\ gemini' = [gemini EXCEPT !.survivors = Len(finalRecs)]
        /\ IF finalRecs = <<>>
           THEN StartFallback("enrich") /\ UNCHANGED res
           ELSE /\ Respond(200, Slice(finalRecs, max), SuccessInfo(variant))
                /\ UNCHANGED <<fbFrom, fbResult, idx, tiers, arr, clean, enriched>>
  /\ UNCHANGED <<variant, env, req, max, ratings, candidates, sortedByOverall, seenIds,
                 seenTitlesLower, pendingTitlesLower, pendingIds, lookups, blockedIds,
                 blockedTitlesLower, geminiCalls, tmdbCalls, nvars>>

\* the set fallbackSimpleFromTmdb is given as its third argument
FallbackBlocked == IF variant = "pending" THEN blockedIds ELSE seenIds

\* the outer for-of of fallbackSimpleFromTmdb has another pass to make
FallbackLooping == idx <= Len(sortedByOverall) /\ Len(fbResult) < max

\* an exception leaves fallbackSimpleFromTmdb: when the call was inside the try, the
\* catch runs the fallback again; otherwise the handler's outer catch answers
FallbackThrows ==
  IF fbFrom \in {"status", "empty", "enrich"}
  THEN StartFallback("catch") /\ UNCHANGED res
  ELSE /\ Respond(500, <<>>, "error_interno")
       /\ UNCHANGED <<fbFrom, fbResult, idx, tiers, arr, clean, enriched>>

\* one pass of the outer for-of: fetchMovieBasicFromTmdb, fetchRecommendedFromTmdb;
\* only the helpers of the two-key version catch what fetch throws
FallbackPass ==
  /\ pc = "fallback"
  /\ FallbackLooping
  /\ IF ~env.tmdb
     THEN /\ idx' = idx + 1
          /\ UNCHANGED <<fbFrom, fbResult, res, pc, tiers, tmdbCalls, arr, clean, enriched>>
     ELSE \E m \in MovieOutcomes : \E o \in RecsOutcomes :
            IF variant # "bothkeys" /\ m = "throw"
            THEN Fetched(1) /\ FallbackThrows
            ELSE /\ Fetched(2)
                 /\ IF variant # "bothkeys" /\ o.kind = "throw"
                    THEN FallbackThrows
                    ELSE /\ fbResult' =
                              PushRecs(fbResult,
                                       RecommendedOf(variant, o.results, FallbackBlocked,
                                                     limitPerBase),
                                       max, FallbackBlocked)
                         /\ idx' = idx + 1
                         /\ UNCHANGED <<fbFrom, res, pc, tiers, arr, clean, enriched>>
  /\ UNCHANGED <<variant, env, req, max, ratings, candidates, sortedByOverall, seenIds,
                 seenTitlesLower, pendingTitlesLower, pendingIds, lookups, blockedIds,
                 blockedTitlesLower, gemini, geminiCalls, nvars>>

\* the info text that goes with the fallback list, by call site
FallbackInfo(from) ==
  CASE from = "nocands" -> "tmdb_sin_candidatas"
    [] from = "status" -> "gemini_devolvio_status"
    [] from = "empty" -> "gemini_vacias_o_repetidas"
    [] from = "enrich" -> "no_se_pudieron_enriquecer"
    [] OTHER -> "excepcion_al_llamar_a_gemini"

\* fallbackSimpleFromTmdb returns and the call site answers 200 with its list
FallbackReturn ==
  /\ pc = "fallback"
  /\ ~FallbackLooping
  /\ Respond(200, fbResult, FallbackInfo(fbFrom))
  /\ UNCHANGED <<variant, env, req, max, ratings, candidates, sortedByOverall, seenIds,
                 seenTitlesLower, pendingTitlesLower, pendingIds, lookups, blockedIds,
                 blockedTitlesLower, idx, gemini, arr, clean, enriched, fbFrom,
                 fbResult, geminiCalls, tmdbCalls, tiers, nvars>>

Next ==
  \/ Validate
  \/ FetchTitle
  \/ TitlesDone
  \/ BuildCandidates
  \/ CandidatesDone
  \/ ResolvePending
  \/ BuildBlocked
  \/ CallGemini
  \/ CallGeminiCandidates
  \/ CallGeminiLocal
  \/ CallGeminiStrict
  \/ Enrich
  \/ Finish
  \/ FallbackPass
  \/ FallbackReturn

Spec == Init /\ [][Next]_vars

(***************************************************************************)
(* The same handlers, served requests with every kind of maxItems.         *)
(***************************************************************************)
InitMax ==
  /\ variant \in Variants
  /\ env \in Envs
  /\ req \in RequestsMax(variant)
  /\ pc = "start"
  /\ HandlerIdle
  /\ NormIdle

SpecMax == InitMax /\ [][Next]_vars

(***************************************************************************)
(* The pending-aware handler up to the blocked set, served every pending   *)
(* list.                                                                   *)
(***************************************************************************)
InitBlocked ==
  /\ variant = "pending"
  /\ env \in Envs
  /\ req \in RequestsBlocked
  /\ pc = "start"
  /\ HandlerIdle
  /\ NormIdle

NextBlocked ==
  \/ Validate
  \/ ResolvePending
  \/ BuildBlocked

SpecBlocked == InitBlocked /\ [][NextBlocked]_vars

(***************************************************************************)
(* Properties of the handlers.                                             *)
(***************************************************************************)
Done == pc = "done"

\* the titles that may not be recommended: those of the ratings and of the pending list
BlockedTitles ==
  {r.title : r \in Range(ratings)} \cup {p.title : p \in Range(req.pending.items)}

\* the blocked title set, each title under normalizeTitle
BlockedTitleKeys == {normalizeTitle(t) : t \in BlockedTitles} \ {<<>>}

\* the response carries the list of the Generative tier
FromGenerative == Done /\ res.status = 200 /\ res.recs # <<>> /\ res.info = SuccessInfo(variant)

\* the response carries the list of fallbackSimpleFromTmdb
FromCatalog ==
  /\ Done
  /\ variant \in CatalogVariants
  /\ res.info \in {FallbackInfo(f) : f \in {"nocands", "status", "empty", "enrich", "catch"}}

\* C1: in the pending-aware handler, a response that comes from the Generative tier
\* has no recommendation whose normalised title is in the blocked title set and none
\* whose tmdbId is in the blocked id set.
C1_GenerativeNeverBlocked ==
  (variant = "pending" /\ FromGenerative) =>
    \A i \in DOMAIN res.recs :
      /\ normalizeTitle(res.recs[i].title) \notin BlockedTitleKeys
      /\ res.recs[i].tmdbId \notin blockedIds

\* C2: a response that comes from fallbackSimpleFromTmdb has no recommendation whose
\* tmdbId is in the blocked id set, none whose normalised title is in the blocked
\* title set, and no tmdbId twice.
C2_CatalogNeverBlocked ==
  FromCatalog =>
    /\ \A i \in DOMAIN res.recs :
         /\ res.recs[i].tmdbId \notin FallbackBlocked
         /\ normalizeTitle(res.recs[i].title) \notin BlockedTitleKeys
    /\ \A i, j \in DOMAIN res.recs :
         i # j => res.recs[i].tmdbId # res.recs[j].tmdbId

\* the key under which a version compares titles
TitleKey(v, t) == IF v \in {"norm", "strict"} THEN normalizeTitle(t) ELSE LowerTrim(t)

\* C5: a null or empty title normalises to the empty string; the empty string is never
\* in a title set, whatever titles the rated and pending items have; and no candidate
\* whose title has the empty key is returned by a version that compares titles.
C5_EmptyKeyNeverUsed ==
  /\ normalizeTitle(Null) = <<>>
  /\ normalizeTitle(<<>>) = <<>>
  /\ <<>> \notin seenTitlesLower
  /\ <<>> \notin pendingTitlesLower
  /\ <<>> \notin blockedTitlesLower
  /\ (Done /\ variant \in {"pending", "lower", "norm", "strict"}) =>
       \A i \in DOMAIN res.recs :
         res.recs[i].src = "gemini" => TitleKey(variant, res.recs[i].title) # <<>>

\* the ratings hold only the item whose title is blank, the service sent two candidates
\* and the filter that normalises titles dropped one: the one with the blank title
C5_Witness ==
  /\ Done
  /\ variant = "norm"
  /\ \A i \in DOMAIN ratings : ratings[i].title = tBlank
  /\ ratings # <<>>
  /\ seenTitlesLower = {}
  /\ gemini.n = 2
  /\ gemini.survivors = 1
  /\ res.recs # <<>>
  /\ res.recs[1].src = "gemini"

\* C6: after a non-success status of the generative service the handlers that have
\* fallbackSimpleFromTmdb answer 2xx with a list that is not empty.
C6_NonEmptyAfterStatus ==
  (Done /\ variant \in CatalogVariants /\ gemini.kind = "status") =>
    (res.status = 200 /\ res.recs # <<>>)

\* the Generative tier failed in one of the four ways
GenerativeFailed ==
  \/ gemini.kind \in {"throw", "status", "unparsed"}
  \/ gemini.kind \in {"direct", "embedded"} /\ gemini.n > 0 /\ gemini.survivors = 0

\* a tier was started after the call to the generative service
HandedOver ==
  /\ tiers # <<>>
  /\ tiers[1] = "G"
  /\ \E i \in 2..Len(tiers) : tiers[i] \in {"F", "L"}

\* C7: when the call to the generative service throws, returns a non-success status,
\* returns text neither extraction path can parse, or every parsed candidate is
\* filtered out, the next tier is started and no candidate of the service is returned.
C7_FailureHandsOver ==
  (variant \in CatalogVariants \cup LocalVariants /\ GenerativeFailed) =>
    /\ HandedOver
    /\ \A i \in DOMAIN res.recs : res.recs[i].src # "gemini"

\* the ratings hold the title "a", the service returned only candidates that the filter
\* dropped, and the response carries what fallbackSimpleFromTmdb found
C7_Witness ==
  /\ Done
  /\ variant = "pending"
  /\ gemini.kind = "direct"
  /\ gemini.n > 0
  /\ gemini.survivors = 0
  /\ tAlpha \in seenTitlesLower
  /\ res.status = 200
  /\ res.recs # <<>>
  /\ res.recs[1].src = "tmdb"

\* how many times e is in the sequence s
Count(s, e) == Cardinality({i \in DOMAIN s : s[i] = e})

\* C8: each tier runs at most once per request, fallbackSimpleFromTmdb is started only
\* after the call to the generative service, and no tier is started when the
\* Generative tier has a survivor.
C8_TiersInSequence ==
  /\ geminiCalls <= 1
  /\ Count(tiers, "G") <= 1
  /\ Count(tiers, "F") <= 1
  /\ Count(tiers, "L") <= 1
  /\ \A i \in DOMAIN tiers : tiers[i] = "F" => (i > 1 /\ tiers[1] = "G")
  /\ (FromGenerative /\ res.recs[1].src = "gemini") => tiers = <<"G">>

\* C9: a POST with a uid and an empty ratings array is answered 200 with an empty list
\* and no fetch is ever sent, in every version and whatever the pending list is.
C9_EmptyRatings ==
  (req.method = "POST" /\ req.uid # "" /\ req.ratings = <<>>) =>
    /\ geminiCalls = 0
    /\ tmdbCalls = 0
    /\ pc \in {"start", "done"}
    /\ Done => (res.status = 200 /\ res.recs = <<>>)

\* the pending-aware handler has answered such a request that came with a pending
\* title and with both keys configured
C9_Witness ==
  /\ Done
  /\ variant = "pending"
  /\ req.method = "POST" /\ req.uid # "" /\ req.ratings = <<>>
  /\ req.pending.isArray /\ req.pending.items # <<>>
  /\ Truthy(req.pending.items[1].title)
  /\ env.gemini /\ env.tmdb
  /\ res.status = 200

\* C10: a POST whose uid is missing or whose ratings is not an array is answered 400
\* and no fetch is ever sent.
C10_InvalidInput ==
  (req.method = "POST" /\ (req.uid = "" \/ req.ratings = NotArray)) =>
    /\ geminiCalls = 0
    /\ tmdbCalls = 0
    /\ pc \in {"start", "done"}
    /\ Done => (res.status = 400 /\ res.recs = <<>>)

\* the two-key handler has answered 400 to a request with a uid whose ratings is not an
\* array, with both keys configured
C10_Witness ==
  /\ Done
  /\ variant = "bothkeys"
  /\ req.method = "POST" /\ req.uid # "" /\ req.ratings = NotArray
  /\ env.gemini /\ env.tmdb
  /\ res.status = 400

\* the request passes the validation and has ratings
WellFormed ==
  req.method = "POST" /\ req.uid # "" /\ req.ratings # NotArray /\ req.ratings # <<>>

\* the caller's maxItems is a positive number
PositiveMax ==
  req.maxItems # <<>> /\ req.maxItems # NotNumber /\ req.maxItems[1] > 0

\* C11: every 200 response of a recommendations handler to a request whose maxItems is
\* a positive number holds at most maxItems recommendations, whichever tier made them.
C11_AtMostMax ==
  (Done /\ res.status = 200 /\ PositiveMax) => Len(res.recs) <= req.maxItems[1]

\* the generative service sent more candidates that pass the filter than maxItems, and
\* the response holds the first maxItems of them
C11_Witness ==
  /\ Done
  /\ res.status = 200
  /\ PositiveMax
  /\ gemini.survivors > req.maxItems[1]
  /\ Len(res.recs) = req.maxItems[1]
  /\ res.recs[1].src = "gemini"

\* C12: when maxItems is omitted, is not a number, or is zero or negative, max is 15:
\* the response never holds more than 15 items, and the local fallback holds as many
\* items as it holds with maxItems = 15.
C12_DefaultMax ==
  (pc # "start" /\ WellFormed /\ ~PositiveMax) =>
    /\ max = DefaultMax
    /\ Len(res.recs) <= DefaultMax
    /\ (Done /\ res.status = 200 /\ tiers # <<>> /\ tiers[Len(tiers)] = "L") =>
         Len(res.recs) = Min(DefaultMax, Len(ratings))

\* C13: a list that comes from the Generative tier or from fallbackSimpleFromTmdb has
\* no duplicates: no two of its recommendations share a tmdbId when both have one, and
\* otherwise no two share a normalised title.
C13_NoDuplicates ==
  (Done /\ res.status = 200 /\ \A k \in DOMAIN res.recs : res.recs[k].src # "local") =>
    \A i, j \in DOMAIN res.recs :
      i < j =>
        IF res.recs[i].tmdbId # NoId /\ res.recs[j].tmdbId # NoId
        THEN res.recs[i].tmdbId # res.recs[j].tmdbId
        ELSE normalizeTitle(res.recs[i].title) # normalizeTitle(res.recs[j].title)

\* C14: a request that passes the validation, has ratings and is served with both keys
\* configured is answered 200, whatever the external services do.
C14_Always2xx ==
  (Done /\ WellFormed /\ env.gemini /\ env.tmdb) => res.status = 200

\* C15: without GEMINI_API_KEY, a request that passes the validation and has ratings is
\* answered 200 by a fallback tier, never 5xx.
C15_MissingKeyDegrades ==
  (Done /\ WellFormed /\ ~env.gemini) => res.status = 200

\* C16: without GEMINI_API_KEY no fetch is ever sent, neither to the generative service
\* nor to the catalog.
C16_NoCallWithoutKey ==
  ~env.gemini => (geminiCalls = 0 /\ tmdbCalls = 0)

\* C17: the info text of a 200 response tells the tier: the text a version sends with
\* the list of the generative service never goes with the list of a fallback tier.
C17_InfoTellsTier ==
  (Done /\ res.status = 200 /\ res.info = SuccessInfo(variant)) =>
    \A i \in DOMAIN res.recs : res.recs[i].src = "gemini"

\* the ids found by the lookups of the pending loop that succeeded
Resolved == {lookups[i].id : i \in {k \in DOMAIN lookups : lookups[k].ok}}

\* the pending items that have a title
Titled == {i \in DOMAIN req.pending.items : Truthy(req.pending.items[i].title)}

\* the handler is past the construction of blockedIds and blockedTitlesLower
BlockedBuilt == variant = "pending" /\ WellFormed /\ pc \notin {"start", "resolve"}

\* C18: in the pending-aware handler a lookup that throws, returns a non-success status
\* or finds nothing neither aborts the request nor stops the loop: the handler always
\* gets to the key check that follows the blocked set, by then every pending item with
\* a title has been looked up, and blockedIds holds every rated id, every pending id
\* given directly and every id a lookup found.
C18_LookupFailureSwallowed ==
  BlockedBuilt =>
    /\ (req.pending.isArray /\ env.tmdb) => Len(lookups) = Cardinality(Titled)
    /\ {req.ratings[i].tmdbId : i \in DOMAIN req.ratings} \subseteq blockedIds
    /\ Range(req.pending.ids) \subseteq blockedIds
    /\ {req.pending.items[i].tmdbId : i \in DOMAIN req.pending.items} \ {NoId}
         \subseteq blockedIds
    /\ Resolved \subseteq blockedIds
    /\ Done => res.info = "falta_gemini_api_key"

\* the lookup for the first of two pending items failed, the lookup for the second
\* found id 7, and 7 is blocked
C18_Witness ==
  /\ BlockedBuilt
  /\ pc = "gemini"
  /\ Len(lookups) = 2
  /\ ~lookups[1].ok
  /\ lookups[2].ok /\ lookups[2].id = 7
  /\ 7 \in blockedIds

\* C19: the pending loop looks up only the items that have a title and no tmdbId.
C19_LookupOnlyWithoutId ==
  variant = "pending" =>
    Len(lookups) <= Cardinality({i \in Titled : req.pending.items[i].tmdbId = NoId})

\* the list a in every order
Reorderings(a) ==
  {[i \in DOMAIN a |-> a[f[i]]] :
     f \in {g \in [DOMAIN a -> DOMAIN a] : \A i, j \in DOMAIN a : i # j => g[i] # g[j]}}

\* C20: in the pending-aware handler blockedIds is the union of the rated ids, the
\* pending ids given directly and the ids the lookups found, blockedTitlesLower is the
\* set of the non-empty keys of the rated and pending titles, and a request with the
\* same ratings and pending items in another order gives the same ids and titles.
C20_BlockedIsUnion ==
  BlockedBuilt =>
    /\ blockedIds =
         {req.ratings[i].tmdbId : i \in DOMAIN req.ratings}
         \cup Range(req.pending.ids)
         \cup ({req.pending.items[i].tmdbId : i \in DOMAIN req.pending.items} \ {NoId})
         \cup Resolved
    /\ blockedTitlesLower = {LowerTrim(t) : t \in BlockedTitles \ {Null}} \ {<<>>}
    /\ pc = "gemini" =>
         \A r2 \in Reorderings(req.ratings), items2 \in Reorderings(req.pending.items) :
           LET p2 == [req.pending EXCEPT !.items = items2]
           IN /\ SeenIds(r2) \cup PendingIdsDirect(p2) \cup Resolved = blockedIds
              /\ SeenTitlesLower(r2) \cup PendingTitlesLower(p2) = blockedTitlesLower

\* two ratings and two pending items, one of them with an id: the blocked set has been
\* built from both lists, and the same lists the other way round are requests too
C20_Witness ==
  /\ BlockedBuilt
  /\ pc = "gemini"
  /\ Len(req.ratings) = 2 /\ req.ratings[1] # req.ratings[2]
  /\ Len(req.pending.items) = 2 /\ req.pending.items[1] # req.pending.items[2]
  /\ 4 \in blockedIds
  /\ tBeta \in blockedTitlesLower
  /\ Cardinality(blockedIds) >= 3

\* the ids searchMovieOnTmdb can return, NoId when it returns undefined
FoundIds == {SearchResult(o) : o \in SearchOutcomes}

\* the catalog as a function of the title it is asked for
Finds(list) == [{list[i].title : i \in DOMAIN list} -> FoundIds]

\* enriched, for a catalog that answers find
EnrichedWith(list, find) ==
  [i \in DOMAIN list |->
     [tmdbId |-> find[list[i].title], title |-> list[i].title,
      reason |-> list[i].reason, src |-> "gemini"]]

\* the candidates that pass the title, reason and id filters
SurvivorsOf(list, titles, ids, find) ==
  FinalOf(EnrichedWith(CleanOf(list, titles), find), ids)

\* finalRecs.slice(0, max) of the pending-aware handler, from arr
GenerativeList(list, titles, ids, n, find) ==
  Slice(FinalOf(EnrichedWith(Slice(CleanOf(list, titles), n), find), ids), n)

\* the last candidate is enriched: the next step is finalRecs and the response
Enriched == pc = "enrich" /\ idx > Len(Slice(clean, max))

\* find answers as the lookups of this request did
AnswersAsSeen(find) ==
  /\ \A i \in DOMAIN enriched : find[clean[i].title] = enriched[i].tmdbId
  /\ ~env.tmdb => \A t \in DOMAIN find : find[t] = NoId

\* C23: for the blocked sets of the request and a catalog that answers by title,
\* the set of generative recommendations sent is the same for every ordering of
\* arr, unless more than max candidates pass all the filters.
C23_OrderIndependent ==
  [][Enriched =>
       \A find \in Finds(arr) :
         AnswersAsSeen(find) =>
           LET sent == IF pc' = "done" THEN Range(res'.recs) ELSE {}
               listOf(p) == GenerativeList(p, blockedTitlesLower, blockedIds, max, find)
           IN  /\ sent = Range(listOf(arr))
               /\ \A p \in Reorderings(arr) :
                    \/ Len(SurvivorsOf(p, blockedTitlesLower, blockedIds, find)) > max
                    \/ Range(listOf(p)) = sent]_vars

\* C24: each candidate of clean.slice(0, max) is enriched with the id the lookup
\* found, or with none (always none without TMDB_API_KEY), its title and reason
\* untouched; a candidate without id stays in the response, and a candidate is
\* missing from it only when its id is in blockedIds.
C24_EnrichmentOptional ==
  [][pc = "enrich" =>
       IF ~Enriched
       THEN /\ Len(enriched') = Len(enriched) + 1
            /\ LET r == enriched'[Len(enriched')]
               IN  /\ r.title = clean[idx].title /\ r.reason = clean[idx].reason
                   /\ r.tmdbId \in FoundIds
                   /\ ~env.tmdb => r.tmdbId = NoId /\ tmdbCalls' = tmdbCalls
       ELSE LET sent == IF pc' = "done" THEN Range(res'.recs) ELSE {}
            IN  \A i \in DOMAIN enriched :
                  /\ enriched[i].tmdbId = NoId => enriched[i] \in sent
                  /\ enriched[i] \notin sent
                       <=> enriched[i].tmdbId # NoId /\ enriched[i].tmdbId \in blockedIds]_vars

\* a lookup was made and found nothing, the candidate is in the response without id,
\* and another candidate was removed for its id
C24_Witness ==
  /\ pc = "done" /\ variant = "pending" /\ env.tmdb /\ res.status = 200
  /\ Len(enriched) = 2 /\ Len(res.recs) = 1
  /\ res.recs[1] \in Range(enriched) /\ res.recs[1].tmdbId = NoId

(***************************************************************************)
(* The pending-aware handler with services that may never answer: no       *)
(* fetch carries an AbortSignal or races a timer, so an await on a fetch   *)
(* that is never settled is never resumed.  Every other continuation is    *)
(* run by the event loop, which is the fairness of SpecLive.               *)
(***************************************************************************)
InitLive ==
  /\ variant = "pending"
  /\ env \in Envs
  /\ req \in {r \in RequestsMax("pending") : r.maxItems \in MaxItemsValues}
  /\ pc = "start"
  /\ HandlerIdle
  /\ NormIdle

\* the handler is at an await of a fetch
AwaitsFetch ==
  \/ pc = "resolve" /\ Resolving /\ Truthy(req.pending.items[idx].title)
  \/ pc = "gemini"
  \/ pc = "enrich" /\ ~Enriched /\ env.tmdb
  \/ pc = "fallback" /\ FallbackLooping /\ env.tmdb

\* await fetch(url): the promise is never settled
NeverAnswers ==
  /\ AwaitsFetch
  /\ pc' = "waiting"
  /\ UNCHANGED <<variant, env, req, max, ratings, candidates, sortedByOverall,
                 seenIds, seenTitlesLower, pendingTitlesLower, pendingIds, lookups,
                 blockedIds, blockedTitlesLower, idx, gemini, arr, clean, enriched,
                 fbFrom, fbResult, res, geminiCalls, tmdbCalls, tiers, nvars>>

NextLive ==
  \/ Validate
  \/ ResolvePending
  \/ BuildBlocked
  \/ CallGemini
  \/ Enrich
  \/ Finish
  \/ FallbackPass
  \/ FallbackReturn
  \/ NeverAnswers

SpecLive == InitLive /\ [][NextLive]_vars /\ WF_vars(NextLive)

\* C25: every request is answered, whatever the services do, a service that never
\* answers included.
C25_AlwaysAnswered == <>(pc = "done")

\* C27: every recommendation of every 2xx response has a non-empty title and a
\* non-empty reason, and one that comes from the generative service has a title and
\* a reason that are more than whitespace.
C27_TitleAndReason ==
  (Done /\ res.status = 200) =>
    \A i \in DOMAIN res.recs :
      /\ Truthy(res.recs[i].title) /\ Truthy(res.recs[i].reason)
      /\ res.recs[i].src = "gemini" =>
           trim(res.recs[i].title) # <<>> /\ trim(res.recs[i].reason) # <<>>

\* the answer is a list of one candidate with a title that is not blocked and a reason
OneGood(g) ==
  /\ g.kind \in {"direct", "embedded"}
  /\ Len(g.items) = 1
  /\ LET c == g.items[1]
     IN  /\ c.isObj /\ c.title # Null /\ trim(c.title) # <<>>
         /\ LowerTrim(c.title) \notin blockedTitlesLower
         /\ Truthy(c.reason)

\* the candidate as the pending-aware handler sends it when no id was found
Unenriched(c) ==
  [tmdbId |-> NoId, title |-> c.title, reason |-> c.reason, src |-> "gemini"]

\* C28: without TMDB_API_KEY, an answer of exactly one candidate with an unblocked
\* title and a non-empty reason goes to the enrichment, is pushed without id and
\* without a catalog call, and is the whole 200 response; the fallback never runs.
C28_SingleCandidate ==
  [][(variant = "pending" /\ ~env.tmdb) =>
       /\ \A g \in GeminiOutcomes :
            (pc = "gemini" /\ OneGood(g) /\ CallGeminiWith(g))
              => pc' = "enrich" /\ arr' = g.items /\ clean' = g.items /\ tiers' = <<"G">>
       /\ (pc = "enrich" /\ OneGood([kind |-> gemini.kind, items |-> arr])) =>
            IF ~Enriched
            THEN enriched' = <<Unenriched(arr[1])>> /\ tmdbCalls' = tmdbCalls
            ELSE /\ pc' = "done" /\ tiers' = <<"G">>
                 /\ res'.status = 200 /\ res'.recs = <<Unenriched(arr[1])>>]_vars

C28_Witness ==
  /\ Done /\ variant = "pending" /\ ~env.tmdb /\ tiers = <<"G">>
  /\ OneGood([kind |-> gemini.kind, items |-> arr])
  /\ res.status = 200 /\ res.recs = <<Unenriched(arr[1])>>

\* a rated item as the local list carries it
LocalRec(r) ==
  [tmdbId |-> r.tmdbId,
   title |-> IF r.title = Null THEN Placeholder(r.tmdbId) ELSE r.title,
   reason |-> localReason, src |-> "local"]

\* the list is made of rated items, best overall first, none better left out
RatedBestFirst(recs, rated) ==
  \E f \in [DOMAIN recs -> DOMAIN rated] :
    /\ \A i, j \in DOMAIN recs : i # j => f[i] # f[j]
    /\ \A i \in DOMAIN recs : recs[i] = LocalRec(rated[f[i]])
    /\ \A i, j \in DOMAIN recs : i < j => rated[f[i]].overall >= rated[f[j]].overall
    /\ \A k \in DOMAIN rated :
         (\A i \in DOMAIN recs : f[i] # k)
           => \A i \in DOMAIN recs : rated[k].overall <= rated[f[i]].overall

\* the response carries the local list
FromLocal == Done /\ res.status = 200 /\ res.recs # <<>> /\ res.recs[1].src = "local"

\* the local list is the handler's ratings (with the titles it has fetched for
\* them) by overall, at most max, with id, title, reason
LocalListShape ==
  FromLocal =>
    /\ Len(res.recs) = Min(max, Len(ratings))
    /\ RatedBestFirst(res.recs, ratings)
    /\ \A i \in DOMAIN res.recs :
         Truthy(res.recs[i].title) /\ Truthy(res.recs[i].reason)

\* C29: the local list is the user's rated items in non-increasing order of overall,
\* cut to min(max, number of ratings), each with its tmdbId, a non-empty title (its
\* own or the placeholder) and a reason, and no recommendation of another tier has
\* a rated or pending id or title.
C29_LocalList ==
  /\ LocalListShape
  /\ (Done /\ res.status = 200) =>
       \A i \in DOMAIN res.recs :
         res.recs[i].src # "local" =>
           /\ res.recs[i].tmdbId \notin (SeenIds(req.ratings) \cup blockedIds)
           /\ normalizeTitle(res.recs[i].title) \notin BlockedTitleKeys

\* C30: when at least max candidates of arr pass the title filter, the reason filter
\* and the id filter, the response is the generative one and has exactly max
\* recommendations.
C30_FillsUpToMax ==
  [][Enriched =>
       \A find \in Finds(arr) :
         (AnswersAsSeen(find)
          /\ Len(SurvivorsOf(arr, blockedTitlesLower, blockedIds, find)) >= max)
           => /\ pc' = "done"
              /\ res'.info = SuccessInfo(variant)
              /\ Len(res'.recs) = max]_vars

\* C31: in the version that offers catalog candidates to the generative service,
\* every recommendation of the generative list has an id, the id of a candidate
\* fetched for this request, and never the id of a rated item.
C31_OnlyOfferedCandidates ==
  (variant = "bothkeys" /\ FromGenerative) =>
    \A i \in DOMAIN res.recs :
      /\ res.recs[i].tmdbId # NoId
      /\ \E j \in DOMAIN candidates : candidates[j].tmdbId = res.recs[i].tmdbId
      /\ res.recs[i].tmdbId \notin SeenIds(req.ratings)

\* the service named two films and one of them was not among the candidates
C31_Witness ==
  /\ variant = "bothkeys" /\ FromGenerative
  /\ gemini.n = 2 /\ Len(res.recs) = 1
  /\ \E j \in DOMAIN candidates : candidates[j].tmdbId = res.recs[1].tmdbId

(***************************************************************************)
(* normalizeTitle on its own: a raw title is normalised, the key is        *)
(* normalised again, and a variant spelling of the raw title is normalised.*)
(***************************************************************************)
RawTitles == StringsUpTo(MaxLen) \cup {Null}

HandlerOff ==
  /\ variant = "pending"
  /\ env = [gemini |-> FALSE, tmdb |-> FALSE]
  /\ req = [method |-> "GET", uid |-> "", ratings |-> <<>>,
            pending |-> NoPending,
            maxItems |-> <<>>]
  /\ pc = "off"
  /\ HandlerIdle

InitNorm ==
  /\ nRaw \in RawTitles
  /\ nStage = "raw"
  /\ nKey = <<>> /\ nKey2 = <<>> /\ nAlt = <<>> /\ nAltKey = <<>> /\ nEdit = "none"
  /\ ExtractIdle /\ GeneratorsIdle
  /\ HandlerOff

\* key = normalizeTitle(raw)
Normalize ==
  /\ nStage = "raw"
  /\ nKey' = normalizeTitle(nRaw)
  /\ nStage' = "key"
  /\ UNCHANGED <<nRaw, nKey2, nAlt, nAltKey, nEdit, hvars, xvars>>

\* normalizeTitle(key)
NormalizeAgain ==
  /\ nStage = "key"
  /\ nKey2' = normalizeTitle(nKey)
  /\ nStage' = "twice"
  /\ UNCHANGED <<nRaw, nKey, nAlt, nAltKey, nEdit, hvars, xvars>>

\* s with c put in front of position i
InsertAt(s, i, c) == SubSeq(s, 1, i - 1) \o <<c>> \o SubSeq(s, i, Len(s))

FlipCase(c) == IF c = "a" THEN "A" ELSE "a"

\* both spellings are normalised
NormalizePair(alt, edit) ==
  /\ nAlt' = alt
  /\ nEdit' = edit
  /\ nKey' = normalizeTitle(nRaw)
  /\ nAltKey' = normalizeTitle(alt)
  /\ nStage' = "pair"
  /\ UNCHANGED <<nRaw, nKey2, hvars, xvars>>

\* the variant differs in the case of one letter
VaryCase ==
  /\ nStage = "raw" /\ nRaw # Null
  /\ \E i \in 1..Len(nRaw) :
       /\ nRaw[i] \in Letters
       /\ NormalizePair([nRaw EXCEPT ![i] = FlipCase(nRaw[i])], "case")

\* the places where a space lengthens a whitespace run, or leads, or trails
SpacePlaces(s) ==
  {i \in 1..(Len(s) + 1) :
     IF i = 1 \/ i = Len(s) + 1 THEN TRUE ELSE s[i] = Space \/ s[i - 1] = Space}

\* the variant has one more space in a whitespace run, or in front, or at the end
VarySpaces ==
  /\ nStage = "raw" /\ nRaw # Null
  /\ \E i \in SpacePlaces(nRaw) : NormalizePair(InsertAt(nRaw, i, Space), "spaces")

\* the variant has one more parenthetical at the end
VaryParenthetical ==
  /\ nStage = "raw" /\ nRaw # Null
  /\ \E lead \in {<<>>, <<Space>>} : \E body \in {<<>>, <<"a">>} :
       NormalizePair(nRaw \o lead \o <<"(">> \o body \o <<")">>, "parenthetical")

\* the variant has one more colon, hyphen, en dash or underscore
VaryPunctuation ==
  /\ nStage = "raw" /\ nRaw # Null
  /\ \E i \in 1..(Len(nRaw) + 1) : \E c \in Puncts :
       NormalizePair(InsertAt(nRaw, i, c), "punctuation")

NextNorm ==
  \/ Normalize
  \/ NormalizeAgain
  \/ VaryCase
  \/ VarySpaces
  \/ VaryParenthetical
  \/ VaryPunctuation

SpecNorm == InitNorm /\ [][NextNorm]_vars

(***************************************************************************)
(* Claims about normalizeTitle (checked under SpecNorm).                   *)
(***************************************************************************)
\* C3: normalizeTitle is idempotent: normalising a key again returns the key.
C3_Idempotent == nStage = "twice" => nKey2 = nKey

\* C4: two spellings that differ only in letter case, in the length of a
\* whitespace run, in leading or trailing whitespace, in one trailing
\* parenthetical or in one punctuation character normalise to the same key.
C4_SameKey == nStage = "pair" => nAltKey = nKey

(***************************************************************************)
(* Extraction on its own: the text of the generative answer is parsed as   *)
(* a whole, then as its {...} span, and the handler reads its list from    *)
(* the value.  The catalog has no key here, so the lists are not enriched. *)
(***************************************************************************)
InitExtract ==
  /\ xHandler \in ExtractHandlers
  /\ xText \in Texts
  /\ xStage = "text" /\ xTried = <<>> /\ xParsed = EmptyObject /\ xOut = NoOut
  /\ served = <<>> /\ GeneratorsIdle
  /\ nRaw = <<>> /\ nStage = "idle" /\ nKey = <<>> /\ nKey2 = <<>>
  /\ nAlt = <<>> /\ nAltKey = <<>> /\ nEdit = "none"
  /\ HandlerOff

xrest == <<nRaw, nStage, nKey, nKey2, nAlt, nAltKey, nEdit, hvars, served, gvars>>

\* try { parsed = JSON.parse(textPart) }
ParseDirect ==
  /\ xStage = "text"
  /\ xTried' = Append(xTried, "direct")
  /\ xParsed' = IF xText.whole = Invalid THEN xParsed ELSE xText.whole
  /\ xStage' = IF xText.whole = Invalid THEN "caught" ELSE "parsed"
  /\ UNCHANGED <<xHandler, xText, xOut, xrest>>

\* the second JSON.parse without its try: its failure leaves no value
SecondParseUnguarded(text) ==
  IF text.span = NoSpan THEN EmptyObject
  ELSE IF text.span = Invalid THEN JValue("null", "none", <<>>)
  ELSE text.span

\* parsed after the catch block: match, then try { parsed = JSON.parse(match[0]) }
SecondParse(text) ==
  IF text.span \in {NoSpan, Invalid} THEN EmptyObject ELSE text.span

\* catch (e) { const match = ...; if (match) { try {...} catch (e2) {} } }
ParseEmbedded ==
  /\ xStage = "caught"
  /\ xTried' = IF xText.span = NoSpan THEN xTried ELSE Append(xTried, "embedded")
  /\ xParsed' = SecondParse(xText)
  /\ xStage' = "parsed"
  /\ UNCHANGED <<xHandler, xText, xOut, xrest>>

\* reading a property of null throws a TypeError
ThrowsOnRead(parsed) == parsed.t = "null"

\* Array.isArray(parsed.<field>) ? parsed.<field> : []
ListOf(parsed) ==
  IF parsed.t = "object" /\ parsed.field = "list" THEN parsed.items ELSE <<>>

Out(status, n, via) == [status |-> status, n |-> n, via |-> via]

\* the recommendations handler: arr, clean, and the fallback when clean is
\* empty; the TypeError is caught by the try around the generative call
ReadRecommendations ==
  /\ xHandler = "recommendations" /\ xStage = "parsed"
  /\ xOut' = IF ThrowsOnRead(xParsed) THEN Out(0, 0, "catch")
             ELSE LET c == CleanOf(ListOf(xParsed), {})
                  IN  IF c = <<>> THEN Out(0, 0, "empty")
                      ELSE Out(0, Len(c), "candidates")
  /\ xStage' = "out"
  /\ UNCHANGED <<xHandler, xText, xTried, xParsed, xrest>>

\* if (!m.title) continue; titleLower empty: continue; else movies.push
ChatKeeps(m) == Truthy(m.title) /\ UsableKey(LowerTrim(m.title))

\* the chat handler: reply, moviesRaw and the for-of loop, whose m.title
\* throws on a null element; the handler's only catch answers 500
ReadChat ==
  /\ xHandler = "chat" /\ xStage = "parsed"
  /\ LET raw == ListOf(xParsed)
     IN  xOut' = IF ThrowsOnRead(xParsed) \/ \E i \in DOMAIN raw : ~raw[i].isObj
                 THEN Out(500, 0, "crash")
                 ELSE Out(200, Len(SelectSeq(raw, ChatKeeps)), "ok")
  /\ xStage' = "out"
  /\ UNCHANGED <<xHandler, xText, xTried, xParsed, xrest>>

\* cleanCandidates.slice(0, 3)
eventCandidates == 3

\* the weekly event handler, for a payload whose theme and texts are there:
\* cleanCandidates, the 500 of an incomplete event, the 500 of its catch
ReadWeekly ==
  /\ xHandler = "weekly" /\ xStage = "parsed"
  /\ xOut' = IF ThrowsOnRead(xParsed) THEN Out(500, 0, "crash")
             ELSE LET c == CleanOf(ListOf(xParsed), {})
                  IN  IF c = <<>> THEN Out(500, 0, "incomplete")
                      ELSE Out(200, Min(eventCandidates, Len(c)), "event")
  /\ xStage' = "out"
  /\ UNCHANGED <<xHandler, xText, xTried, xParsed, xrest>>

NextExtract ==
  \/ ParseDirect
  \/ ParseEmbedded
  \/ ReadRecommendations
  \/ ReadChat
  \/ ReadWeekly

SpecExtract == InitExtract /\ [][NextExtract]_vars

\* neither the whole text nor its {...} span is JSON
BothFail(text) == text.whole = Invalid /\ text.span \in {Invalid, NoSpan}

WrongShape(parsed) ==
  \/ parsed.t # "object"
  \/ parsed.field # "list"
  \/ \E i \in DOMAIN parsed.items : ~CleanKeeps(parsed.items[i], {})

\* C22: a payload that parses but has the wrong shape (no list, not an
\* object, null or incomplete elements) never ends in the handler's catch,
\* and gives zero candidates when it has no list.
C22_WrongShapeNeverCrashes ==
  (xStage = "out" /\ WrongShape(xParsed))
    => /\ xOut.via # "crash"
       /\ ListOf(xParsed) = <<>> => xOut.n = 0

(***************************************************************************)
(* Two requests to the pending-aware handler, both keys set, served        *)
(* interleaved at every await.  Everything the handler writes is a local   *)
(* of the call; the module-level constants are the two keys.  The services *)
(* answer each request by what they are asked.                             *)
(***************************************************************************)
PairRequests ==
  [method : {"POST"}, uid : {"u"},
   ratings : {<<[tmdbId |-> 2, title |-> Null, overall |-> 9, disfrute |-> 5]>>},
   pending : {NoPending,
              [isArray |-> TRUE, items |-> <<[tmdbId |-> NoId, title |-> tBeta]>>,
               ids |-> <<>>]},
   maxItems : MaxItemsValues]

PairItems ==
  LET upper == [isObj |-> TRUE, tmdbId |-> 5, title |-> tAlphaUpper, reason |-> rReason]
      year == [isObj |-> TRUE, tmdbId |-> 2, title |-> tAlphaYear, reason |-> rReason]
  IN  {<<upper, year>>, <<year>>}

PairFinds ==
  {[t \in {tBeta, tAlphaUpper, tAlphaYear} |-> 7],
   [t \in {tBeta, tAlphaUpper, tAlphaYear} |-> IF t = tBeta THEN 1 ELSE NoId]}

\* recs: json.results of /movie/{id}/recommendations
PairAnswers ==
  [items : PairItems, find : PairFinds,
   recs : {<<[id |-> 5, title |-> tBeta], [id |-> 1, title |-> Null]>>}]

\* the locals of a call at its entry
StartFrame(r, a) ==
  [req |-> r, ans |-> a, pc |-> "start", pendingIds |-> {}, blockedIds |-> {},
   blockedTitlesLower |-> {}, idx |-> 0, clean |-> <<>>, enriched |-> <<>>,
   fbResult |-> <<>>, res |-> NoRes]

\* a blockedIds kept at module level, shared by the calls
BlockedOfAll(all, r) ==
  UNION {SeenIds(all[q].req.ratings) \cup all[q].pendingIds : q \in DOMAIN all}

\* const blockedIds = new Set([...seenIds, ...pendingIds]): locals of the call
BlockedOf(all, r) == SeenIds(all[r].req.ratings) \cup all[r].pendingIds

\* the handler of call r from one await to the next
StepOf(all, r) ==
  LET f == all[r]
      n == MaxOf(f.req.maxItems)
      sorted == SortByOverall(f.req.ratings)
      toFallback == [f EXCEPT !.pc = "fallback", !.idx = 1]
  IN CASE f.pc = "start" ->
            [f EXCEPT !.pc = "resolve", !.idx = 1,
                      !.pendingIds = PendingIdsDirect(f.req.pending)]
       [] f.pc = "resolve" ->
            IF f.req.pending.isArray /\ f.idx <= Len(f.req.pending.items)
            THEN LET p == f.req.pending.items[f.idx]
                 IN [f EXCEPT !.idx = f.idx + 1,
                              !.pendingIds =
                                 IF Truthy(p.title)
                                 THEN f.pendingIds \cup ({f.ans.find[p.title]} \ {NoId})
                                 ELSE f.pendingIds]
            ELSE [f EXCEPT !.pc = "gemini",
                           !.blockedIds = BlockedOf(all, r),
                           !.blockedTitlesLower =
                              SeenTitlesLower(f.req.ratings)
                              \cup PendingTitlesLower(f.req.pending)]
       [] f.pc = "gemini" ->
            LET c == CleanOf(f.ans.items, f.blockedTitlesLower)
            IN IF c = <<>> THEN toFallback
               ELSE [f EXCEPT !.pc = "enrich", !.idx = 1, !.clean = c]
       [] f.pc = "enrich" ->
            IF f.idx <= Len(Slice(f.clean, n))
            THEN [f EXCEPT !.idx = f.idx + 1,
                           !.enriched = Append(f.enriched,
                              [tmdbId |-> f.ans.find[f.clean[f.idx].title],
                               title |-> f.clean[f.idx].title,
                               reason |-> f.clean[f.idx].reason, src |-> "gemini"])]
            ELSE LET finalRecs == FinalOf(f.enriched, f.blockedIds)
                 IN IF finalRecs = <<>> THEN toFallback
                    ELSE [f EXCEPT !.pc = "done",
                                   !.res = [status |-> 200, recs |-> Slice(finalRecs, n),
                                            info |-> SuccessInfo("pending")]]
       [] f.pc = "fallback" ->
            IF f.idx <= Len(sorted) /\ Len(f.fbResult) < n
            THEN [f EXCEPT !.idx = f.idx + 1,
                           !.fbResult =
                              PushRecs(f.fbResult,
                                       RecommendedOf("pending", f.ans.recs, f.blockedIds,
                                                     limitPerBase),
                                       n, f.blockedIds)]
            ELSE [f EXCEPT !.pc = "done",
                           !.res = [status |-> 200, recs |-> f.fbResult,
                                    info |-> "tmdb"]]
       [] OTHER -> f

InitPair ==
  /\ served \in [1..2 -> {StartFrame(r, a) : r \in PairRequests, a \in PairAnswers}]
  /\ xHandler = "none" /\ xText = [whole |-> NoSpan, span |-> NoSpan]
  /\ xStage = "idle" /\ xTried = <<>> /\ xParsed = EmptyObject /\ xOut = NoOut
  /\ GeneratorsIdle
  /\ nRaw = <<>> /\ nStage = "idle" /\ nKey = <<>> /\ nKey2 = <<>>
  /\ nAlt = <<>> /\ nAltKey = <<>> /\ nEdit = "none"
  /\ HandlerOff

\* the event loop resumes call r
Serve(r) ==
  /\ served[r].pc # "done"
  /\ served' = [served EXCEPT ![r] = StepOf(served, r)]
  /\ UNCHANGED <<nRaw, nStage, nKey, nKey2, nAlt, nAltKey, nEdit, hvars,
                 xHandler, xText, xStage, xTried, xParsed, xOut, gvars>>

NextPair == \E r \in DOMAIN served : Serve(r)

SpecPair == InitPair /\ [][NextPair]_vars

\* the call served alone, from f to its response
RECURSIVE Alone(_)
Alone(f) == IF f.pc = "done" THEN f ELSE Alone(StepOf(<<f>>, 1))

\* C26: a step of one call leaves the locals of the other untouched and does the
\* same whatever the other call holds, and each call ends with the blocked sets,
\* the candidate list and the response it has when it is served alone against
\* the same answers.
C26_NoInterference ==
  [][\A r \in DOMAIN served :
       served'[r] # served[r] =>
         /\ \A q \in DOMAIN served : q # r => served'[q] = served[q]
         /\ served'[r] = StepOf(<<served[r]>>, 1)
         /\ Alone(served'[r]) = Alone(StartFrame(served[r].req, served[r].ans))]_vars

\* both calls are answered, with different blocked sets and different lists
C26_Witness ==
  /\ served # <<>>
  /\ served[1].pc = "done" /\ served[2].pc = "done"
  /\ served[1].blockedIds # served[2].blockedIds
  /\ served[1].res.recs # served[2].res.recs
  /\ served[1].res.recs # <<>> /\ served[2].res.recs # <<>>

(***************************************************************************)
(* The chat handler (api/chat-movies) on its own.                          *)
(***************************************************************************)
ovars ==
  <<hvars, nRaw, nStage, nKey, nKey2, nAlt, nAltKey, nEdit,
    xHandler, xText, xStage, xTried, xParsed, xOut, served>>

OthersOff == NormOff /\ HandlerOff

\* req.body.ratings: absent, empty, or one rating
ChatRatings == {<<>>, NotArray} \cup {<<r>> : r \in RatedPool}

ChatRequests ==
  [method : {"POST"}, uid : {"u"}, messages : {TRUE}, ratings : ChatRatings,
   pending : PendingValues]
  \cup {[method |-> "GET", uid |-> "u", messages |-> TRUE, ratings |-> <<>>,
         pending |-> NoPending],
        [method |-> "POST", uid |-> "", messages |-> TRUE, ratings |-> <<>>,
         pending |-> NoPending],
        [method |-> "POST", uid |-> "u", messages |-> FALSE, ratings |-> <<>>,
         pending |-> NoPending]}

\* parsed.movies[i]
ChatMoviePool == {[title |-> t] : t \in {tAlphaUpper, tBeta, tAlphaYear, tBlank, Null}}

\* the tmdbId of searchMovieOnTmdb's answer: none, a rated one, a pending one, a new one
ChatFound == {NoId, 1, 4, 5}

\* const ratingsOrEmpty = Array.isArray(ratings) ? ratings : []
ratingsOrEmpty(r) == IF r = NotArray THEN <<>> ELSE r

InitChat ==
  /\ chat \in {[pc |-> "start", env |-> e, req |-> r, pendingIds |-> {}, resolved |-> {},
                k |-> 1, blockedIds |-> {}, blockedTitlesLower |-> {},
                moviesRaw |-> <<>>, i |-> 1, movies |-> <<>>, status |-> 0] :
               e \in Envs, r \in ChatRequests}
  /\ runs = <<>> /\ weeklyEvents = <<>> /\ writes = <<>> /\ clock = <<>>
  /\ gen = <<>> /\ admin = <<>>
  /\ OthersOff

ChatRest == <<runs, weeklyEvents, writes, clock, gen, admin, ovars>>

ChatAnswer(status) == [chat EXCEPT !.pc = "done", !.status = status]

\* the method check, the uid/messages check, pendingIds from the request
ChatValidate ==
  /\ chat.pc = "start"
  /\ chat' = IF chat.req.method # "POST" THEN ChatAnswer(405)
             ELSE IF chat.req.uid = "" \/ ~chat.req.messages THEN ChatAnswer(400)
             ELSE [chat EXCEPT !.pc = "pending",
                               !.pendingIds = PendingIdsDirect(chat.req.pending)]
  /\ UNCHANGED ChatRest

\* one turn of the loop that resolves the pending titles; a lookup that
\* throws is caught and adds nothing, as one that finds nothing
ChatResolvePending ==
  /\ chat.pc = "pending"
  /\ chat.req.pending.isArray /\ chat.env.tmdb
  /\ chat.k <= Len(chat.req.pending.items)
  /\ LET p == chat.req.pending.items[chat.k]
     IN IF ~Truthy(p.title)
        THEN chat' = [chat EXCEPT !.k = @ + 1]
        ELSE \E found \in ChatFound :
               chat' = IF found = NoId
                       THEN [chat EXCEPT !.k = @ + 1]
                       ELSE [chat EXCEPT !.k = @ + 1,
                                         !.pendingIds = @ \cup {found},
                                         !.resolved = @ \cup {found}]
  /\ UNCHANGED ChatRest

\* blockedIds, blockedTitlesLower, then the GEMINI_API_KEY check
ChatBlock ==
  /\ chat.pc = "pending"
  /\ ~(chat.req.pending.isArray /\ chat.env.tmdb)
       \/ chat.k > Len(chat.req.pending.items)
  /\ chat' = IF ~chat.env.gemini THEN ChatAnswer(500)
             ELSE [chat EXCEPT
                     !.pc = "gemini",
                     !.blockedIds =
                       SeenIds(ratingsOrEmpty(chat.req.ratings)) \cup chat.pendingIds,
                     !.blockedTitlesLower =
                       SeenTitlesLower(ratingsOrEmpty(chat.req.ratings))
                         \cup PendingTitlesLower(chat.req.pending)]
  /\ UNCHANGED ChatRest

\* the generative call: fetch throws or parsed is null, not ok, or parsed.movies
ChatGemini ==
  /\ chat.pc = "gemini"
  /\ \/ chat' = ChatAnswer(500)
     \/ \E l \in SeqsUpTo(ChatMoviePool, MaxCands) :
          chat' = [chat EXCEPT !.pc = "movies", !.moviesRaw = l]
  /\ UNCHANGED ChatRest

\* a filter that lowercases the title without trimming it
ChatSkipsUntrimmed(m, blockedTitles) ==
  \/ ~Truthy(m.title)
  \/ ~UsableKey(LowerTrim(m.title))
  \/ toLowerCase(m.title) \in blockedTitles

\* if (!m.title) continue; if (!titleLower) continue;
\* if (blockedTitlesLower.has(titleLower)) continue
ChatSkipsTitle(m, blockedTitles) ==
  \/ ~Truthy(m.title)
  \/ ~UsableKey(LowerTrim(m.title))
  \/ LowerTrim(m.title) \in blockedTitles

\* one turn of for (const m of moviesRaw); a throw of the lookup ends the request
ChatMovie ==
  /\ chat.pc = "movies"
  /\ chat.i <= Len(chat.moviesRaw)
  /\ LET m == chat.moviesRaw[chat.i]
     IN IF ChatSkipsTitle(m, chat.blockedTitlesLower)
        THEN chat' = [chat EXCEPT !.i = @ + 1]
        ELSE \/ chat.env.tmdb /\ chat' = ChatAnswer(500)
             \/ \E found \in (IF chat.env.tmdb THEN ChatFound ELSE {NoId}) :
                  chat' = IF found # NoId /\ found \in chat.blockedIds
                          THEN [chat EXCEPT !.i = @ + 1]
                          ELSE [chat EXCEPT
                                  !.i = @ + 1,
                                  !.movies = Append(@, [tmdbId |-> found,
                                                        title |-> m.title,
                                                        at |-> chat.i])]
  /\ UNCHANGED ChatRest

\* res.status(200).json({ reply, movies, info })
ChatRespond ==
  /\ chat.pc = "movies"
  /\ chat.i > Len(chat.moviesRaw)
  /\ chat' = ChatAnswer(200)
  /\ UNCHANGED ChatRest

NextChat ==
  \/ ChatValidate
  \/ ChatResolvePending
  \/ ChatBlock
  \/ ChatGemini
  \/ ChatMovie
  \/ ChatRespond

SpecChat == InitChat /\ [][NextChat]_vars

\* C32: in a 200 response of the chat handler no movie has a lowercased,
\* trimmed title among the blocked titles or a found tmdbId among the rated,
\* pending or resolved pending ids; the movies are in the order of the
\* generative output; and only the method, a missing uid or messages that are
\* not an array are answered 4xx, whatever the ratings
C32_ChatFiltersBlocked ==
  LET rated == ratingsOrEmpty(chat.req.ratings)
      titles == SeenTitlesLower(rated) \cup PendingTitlesLower(chat.req.pending)
      ids == SeenIds(rated) \cup PendingIdsDirect(chat.req.pending) \cup chat.resolved
  IN /\ (chat.pc = "done" /\ chat.status = 200) =>
          /\ \A j \in DOMAIN chat.movies :
               /\ LowerTrim(chat.movies[j].title) \notin titles
               /\ chat.movies[j].tmdbId = NoId \/ chat.movies[j].tmdbId \notin ids
               /\ chat.movies[j].title = chat.moviesRaw[chat.movies[j].at].title
          /\ \A j \in DOMAIN chat.movies : \A h \in DOMAIN chat.movies :
               j < h => chat.movies[j].at < chat.movies[h].at
     /\ chat.status \in {400, 405} =>
          (chat.req.method # "POST" \/ chat.req.uid = "" \/ ~chat.req.messages)

C32_Witness ==
  /\ chat.pc = "done" /\ chat.status = 200
  /\ chat.req.ratings = NotArray
  /\ chat.resolved = {4}
  /\ Len(chat.moviesRaw) = 2 /\ Len(chat.movies) = 1
  /\ LowerTrim(chat.moviesRaw[1].title) \in chat.blockedTitlesLower
  /\ chat.movies[1].tmdbId = 5

(***************************************************************************)
(* The weekly-event generator (api/weekly-event-generate.ts).  An instant  *)
(* is a number of hours; a date string is the number of its UTC day.       *)
(***************************************************************************)
MaxRaw == 4

MaxTicks == 2

HoursPerDay == 24

\* the instant at which the zone of the process changes its offset
SwitchAt == 73

\* the offset of local time, in hours: (before, after) the change
OffsetsOf(zone) ==
  CASE zone = "utc" -> <<0, 0>>
    [] zone = "spring" -> <<1, 2>>
    [] zone = "autumn" -> <<2, 1>>

LocalOf(t, zone) == t + (IF t < SwitchAt THEN OffsetsOf(zone)[1] ELSE OffsetsOf(zone)[2])

\* the instant of a local time; a skipped or repeated local time is read
\* with the offset before the change
InstantOf(l, zone) ==
  LET o == OffsetsOf(zone)
  IN IF l - o[1] < SwitchAt THEN l - o[1]
     ELSE IF l - o[2] >= SwitchAt THEN l - o[2]
     ELSE l - o[1]

\* d = new Date(t.getTime()); d.setDate(d.getDate() + n)
AddDays(t, n, zone) == InstantOf(LocalOf(t, zone) + n * HoursPerDay, zone)

\* d.toISOString().slice(0, 10)
toIsoDate(t) == t \div HoursPerDay

\* an id that keeps the hour of the run
EventIdOfInstant(t) == t

\* const eventId = startVoteDate
EventIdOf(t) == toIsoDate(t)

\* what fetchTopFromAppRanking(80) comes back with: it throws, or the list
WeeklyRanks ==
  {[ok |-> FALSE, top |-> <<>>], [ok |-> TRUE, top |-> <<>>],
   [ok |-> TRUE, top |-> <<[tmdbId |-> 1, title |-> tAlphaUpper]>>]}

\* parsed.candidates[i]: null, a film of the ranking, two other films
EventPool ==
  {NullElem} \cup
  {[isObj |-> TRUE, tmdbId |-> NoId, title |-> t, reason |-> rReason] :
     t \in {tAlpha, tBeta, tAlphaYear}}

\* parsed.theme, parsed.shortDescription, parsed.longArticle
EventTexts ==
  {[theme |-> tAlpha, shortDescription |-> tAlpha, longArticle |-> tAlpha],
   [theme |-> tBeta, shortDescription |-> tBeta, longArticle |-> tBeta],
   [theme |-> tBlank, shortDescription |-> tAlpha, longArticle |-> tAlpha],
   [theme |-> tAlpha, shortDescription |-> Null, longArticle |-> tAlpha],
   [theme |-> tAlpha, shortDescription |-> tAlpha, longArticle |-> tBlank]}

NoTexts == [theme |-> Null, shortDescription |-> Null, longArticle |-> Null]

\* the generative call: fetch throws, the answer is not ok, or the parsed payload
WeeklyAnswers ==
  {[kind |-> k, texts |-> NoTexts, candidates |-> <<>>] : k \in {"throws", "notok"}}
  \cup {[kind |-> "json", texts |-> t, candidates |-> l] :
          t \in EventTexts, l \in SeqsUpTo(EventPool, MaxRaw)}

\* (parsed.theme || "").toString().trim()
TextOf(v) == IF Truthy(v) THEN trim(v) ELSE <<>>

\* a set of the ranking titles as they are stored
RankingTitlesRaw(top) == {m.title : m \in Range(top)}

\* new Set(topMovies.map(m => m.title.toLowerCase().trim()))
RankingTitlesLower(top) == {LowerTrim(m.title) : m \in Range(top)}

\* rawCandidates.filter(...), each kept candidate with its place in rawCandidates
cleanCandidates(raw, seen) ==
  SelectSeq([i \in DOMAIN raw |-> [c |-> raw[i], at |-> i]],
            LAMBDA e : CleanKeeps(e.c, seen))

\* a check of the three texts only
IncompleteTexts(t, kept) ==
  \E v \in {t.theme, t.shortDescription, t.longArticle} : TextOf(v) = <<>>

\* if (!theme || !shortDescription || !longArticle || !cleanCandidates.length)
Incomplete(t, kept) ==
  \/ \E v \in {t.theme, t.shortDescription, t.longArticle} : TextOf(v) = <<>>
  \/ kept = <<>>

\* const event: WeeklyEventDto, for const today = new Date() at instant t
EventOf(t, zone, texts, kept) ==
  LET endVote == AddDays(t, 6, zone)
      startWatch == AddDays(endVote, 1, zone)
      endWatch == AddDays(startWatch, 7, zone)
      startForum == AddDays(endWatch, 1, zone)
      endForum == AddDays(startForum, 7, zone)
      first == Slice(kept, eventCandidates)
  IN [id |-> EventIdOf(t),
      theme |-> TextOf(texts.theme),
      shortDescription |-> TextOf(texts.shortDescription),
      longArticle |-> TextOf(texts.longArticle),
      startVoteDate |-> toIsoDate(t),
      endVoteDate |-> toIsoDate(endVote),
      startWatchDate |-> toIsoDate(startWatch),
      endWatchDate |-> toIsoDate(endWatch),
      startForumDate |-> toIsoDate(startForum),
      endForumDate |-> toIsoDate(endForum),
      phase |-> "VOTING",
      candidates |-> [i \in DOMAIN first |->
                        [tmdbId |-> NoId, title |-> first[i].c.title, at |-> first[i].at]]]

NoEvent == <<>>

\* a run at its first line, with what the ranking and the generative service will answer
RunOf(method, key, rank, answer) ==
  [pc |-> "start", method |-> method, key |-> key, rank |-> rank, answer |-> answer,
   seenTitlesLower |-> {}, today |-> 0, event |-> NoEvent, status |-> 0]

WeeklyRuns ==
  {RunOf("POST", TRUE, r, a) : r \in WeeklyRanks, a \in WeeklyAnswers}
  \cup {RunOf(mk[1], mk[2], [ok |-> TRUE, top |-> <<>>],
               [kind |-> "notok", texts |-> NoTexts, candidates |-> <<>>]) :
          mk \in {<<"GET", TRUE>>, <<"POST", FALSE>>}}

Clocks == [now : {0, 12, 23}, zone : {"utc", "spring", "autumn"}, ticks : {0}]

StoreEmpty == weeklyEvents = <<>> /\ writes = <<>>

InitWeekly ==
  /\ runs \in [1..1 -> WeeklyRuns]
  /\ clock \in Clocks
  /\ StoreEmpty
  /\ chat = <<>> /\ gen = <<>> /\ admin = <<>>
  /\ OthersOff

WeeklyRest == <<chat, gen, admin, ovars>>

Ended(r, status) == [runs EXCEPT ![r].pc = "done", ![r].status = status]

\* the method check and the GEMINI_API_KEY check
CheckRun(r) ==
  /\ runs[r].pc = "start"
  /\ runs' = IF runs[r].method # "POST" THEN Ended(r, 405)
             ELSE IF ~runs[r].key THEN Ended(r, 500)
             ELSE [runs EXCEPT ![r].pc = "ranking"]
  /\ UNCHANGED <<weeklyEvents, writes, clock, WeeklyRest>>

\* await fetchTopFromAppRanking(80), the empty ranking, seenTitlesLower
ReadRanking(r) ==
  /\ runs[r].pc = "ranking"
  /\ runs' = IF ~runs[r].rank.ok THEN Ended(r, 500)
             ELSE IF runs[r].rank.top = <<>> THEN Ended(r, 400)
             ELSE [runs EXCEPT ![r].pc = "gemini",
                               ![r].seenTitlesLower = RankingTitlesLower(runs[r].rank.top)]
  /\ UNCHANGED <<weeklyEvents, writes, clock, WeeklyRest>>

\* the generative call, the parse, cleanCandidates, the incomplete event, the event
Generate(r) ==
  /\ runs[r].pc = "gemini"
  /\ LET a == runs[r].answer
         kept == cleanCandidates(a.candidates, runs[r].seenTitlesLower)
     IN runs' = IF a.kind # "json" THEN Ended(r, 500)
                ELSE IF Incomplete(a.texts, kept) THEN Ended(r, 500)
                ELSE [runs EXCEPT ![r].pc = "write",
                                  ![r].today = clock.now,
                                  ![r].event = EventOf(clock.now, clock.zone, a.texts, kept)]
  /\ UNCHANGED <<weeklyEvents, writes, clock, WeeklyRest>>

\* await db.collection("weeklyEvents").doc(eventId).set({...event}): the
\* document is replaced whole, or the call throws and nothing is written
Persist(r) ==
  /\ runs[r].pc = "write"
  /\ \/ /\ weeklyEvents' = (runs[r].event.id :> runs[r].event) @@ weeklyEvents
        /\ writes' = Append(writes, [run |-> r, today |-> runs[r].today,
                                     event |-> runs[r].event])
        /\ runs' = Ended(r, 200)
     \/ /\ runs' = Ended(r, 500)
        /\ UNCHANGED <<weeklyEvents, writes>>
  /\ UNCHANGED <<clock, WeeklyRest>>

\* time passes
Tick ==
  /\ clock.ticks < MaxTicks
  /\ clock' = [clock EXCEPT !.now = @ + 12, !.ticks = @ + 1]
  /\ UNCHANGED <<runs, weeklyEvents, writes, WeeklyRest>>

NextWeekly ==
  \/ \E r \in DOMAIN runs : CheckRun(r)
  \/ \E r \in DOMAIN runs : ReadRanking(r)
  \/ \E r \in DOMAIN runs : Generate(r)
  \/ \E r \in DOMAIN runs : Persist(r)
  \/ Tick

SpecWeekly == InitWeekly /\ [][NextWeekly]_vars

\* the texts and the surviving candidates of a run, from what it was answered
CompleteRun(f) ==
  /\ f.method = "POST" /\ f.key
  /\ f.rank.ok /\ f.rank.top # <<>>
  /\ f.answer.kind = "json"
  /\ \A v \in {f.answer.texts.theme, f.answer.texts.shortDescription,
               f.answer.texts.longArticle} : Truthy(v) /\ trim(v) # <<>>
  /\ \E i \in DOMAIN f.answer.candidates :
       CleanKeeps(f.answer.candidates[i], {LowerTrim(m.title) : m \in Range(f.rank.top)})

\* C33: the generator writes an event only when theme, shortDescription and
\* longArticle are non-empty and a candidate survived cleaning; a run that
\* ends otherwise (other method, missing key, ranking empty or not read,
\* generative failure, incomplete payload, a throw) answers 4xx or 5xx and
\* has written nothing; a run that answers 200 has written once
C33_WriteOnlyWhenComplete ==
  /\ writes # <<>> => CompleteRun(runs[1])
  /\ runs[1].pc = "done" =>
       /\ ~CompleteRun(runs[1]) => runs[1].status \in {400, 405, 500}
       /\ runs[1].status # 200 => StoreEmpty
       /\ runs[1].status = 200 => Len(writes) = 1 /\ DOMAIN weeklyEvents = {writes[1].event.id}

C33_Witness ==
  /\ runs[1].pc = "done" /\ runs[1].status = 200
  /\ Len(writes) = 1
  /\ Len(runs[1].answer.candidates) = 2
  /\ Len(writes[1].event.candidates) = 1

\* C34: every persisted event has one to three candidates, each with a
\* non-empty title whose lowercased, trimmed form is the lowercased, trimmed
\* title of no movie of the ranking the run read, in the order of the
\* generative output
C34_PersistedCandidates ==
  \A w \in DOMAIN writes :
    LET cs == writes[w].event.candidates
        f == runs[writes[w].run]
    IN /\ Len(cs) \in 1..3
       /\ \A j \in DOMAIN cs :
            /\ cs[j].title # Null /\ cs[j].title # <<>>
            /\ \A m \in Range(f.rank.top) : LowerTrim(cs[j].title) # LowerTrim(m.title)
            /\ cs[j].title = f.answer.candidates[cs[j].at].title
       /\ \A j \in DOMAIN cs : \A h \in DOMAIN cs : j < h => cs[j].at < cs[h].at
       /\ weeklyEvents[writes[w].event.id].candidates = cs

C34_Witness ==
  /\ Len(writes) = 1
  /\ Len(runs[1].answer.candidates) = 4
  /\ LowerTrim(runs[1].answer.candidates[1].title) \in runs[1].seenTitlesLower
  /\ Len(writes[1].event.candidates) = 3
  /\ writes[1].event.candidates[1].title # writes[1].event.candidates[2].title

\* C36: in every generated event endVoteDate is 6 days after startVoteDate,
\* startWatchDate the day after endVoteDate, endWatchDate 7 days after
\* startWatchDate, startForumDate the day after endWatchDate, endForumDate
\* 7 days after startForumDate, and the phase is VOTING
C36_PhaseWindows ==
  \A w \in DOMAIN writes :
    LET e == writes[w].event
    IN /\ e.endVoteDate = e.startVoteDate + 6
       /\ e.startWatchDate = e.endVoteDate + 1
       /\ e.endWatchDate = e.startWatchDate + 7
       /\ e.startForumDate = e.endWatchDate + 1
       /\ e.endForumDate = e.startForumDate + 7
       /\ e.phase = "VOTING"

\* the same windows, for a process whose zone is UTC
PhaseWindowsInUtc == clock.zone = "utc" => C36_PhaseWindows

(***************************************************************************)
(* Two runs of the generator, interleaved at every await, on one           *)
(* weeklyEvents collection.                                                *)
(***************************************************************************)
\* two complete answers that differ in every text and in their candidate
PairEvents ==
  {[kind |-> "json",
    texts |-> [theme |-> t, shortDescription |-> t, longArticle |-> t],
    candidates |-> <<[isObj |-> TRUE, tmdbId |-> NoId, title |-> t, reason |-> rReason]>>] :
     t \in {tBeta, tAlphaYear}}

InitWeeklyPair ==
  /\ runs \in [1..2 -> {RunOf("POST", TRUE,
                              [ok |-> TRUE, top |-> <<[tmdbId |-> 1, title |-> tAlphaUpper]>>],
                              a) : a \in PairEvents}]
  /\ clock \in Clocks
  /\ StoreEmpty
  /\ chat = <<>> /\ gen = <<>> /\ admin = <<>>
  /\ OthersOff

SpecWeeklyPair == InitWeeklyPair /\ [][NextWeekly]_vars

\* the last set() on document id
LastWrite(id) ==
  LET at == {w \in DOMAIN writes : writes[w].event.id = id}
  IN writes[CHOOSE w \in at : \A v \in at : v <= w]

MaxCalls == 4

\* let app: admin.app.App | null = null
NoApp == 0

FirebaseEnvs == [projectId : BOOLEAN, clientEmail : BOOLEAN, privateKey : BOOLEAN]

\* if (!projectId || !clientEmail || !privateKey) throw
EnvComplete(e) == e.projectId /\ e.clientEmail /\ e.privateKey

AdminOf(e) == [app |-> NoApp, env |-> e, inits |-> 0, calls |-> 0, last |-> "none"]

\* a guard that never sees the app
NeverInitialized(a) == FALSE

\* the negation of if (!app)
Initialized(a) == a.app # NoApp

\* initFirebaseAdmin(); certOk: admin.credential.cert and initializeApp do not throw
initFirebaseAdmin(a, certOk) ==
  IF Initialized(a) THEN [a EXCEPT !.last = "app"]
  ELSE IF ~EnvComplete(a.env) \/ ~certOk THEN [a EXCEPT !.last = "threw"]
  ELSE [a EXCEPT !.app = a.inits + 1, !.inits = @ + 1, !.last = "app"]

\* getDb()
getDb(a, certOk) ==
  LET b == IF Initialized(a) THEN a ELSE initFirebaseAdmin(a, certOk)
  IN IF b.last = "threw" /\ ~Initialized(a) THEN b ELSE [b EXCEPT !.last = "db"]

InitAdmin ==
  /\ admin \in {AdminOf(e) : e \in FirebaseEnvs}
  /\ chat = <<>> /\ runs = <<>> /\ weeklyEvents = <<>> /\ writes = <<>>
  /\ clock = <<>> /\ gen = <<>>
  /\ OthersOff

AdminRest == <<chat, runs, weeklyEvents, writes, clock, gen, ovars>>

CallInit ==
  /\ admin.calls < MaxCalls
  /\ \E certOk \in BOOLEAN :
       admin' = [initFirebaseAdmin(admin, certOk) EXCEPT !.calls = @ + 1]
  /\ UNCHANGED AdminRest

CallGetDb ==
  /\ admin.calls < MaxCalls
  /\ \E certOk \in BOOLEAN :
       admin' = [getDb(admin, certOk) EXCEPT !.calls = @ + 1]
  /\ UNCHANGED AdminRest

\* a variable of the environment is set or unset between two calls
SetEnv ==
  /\ \E v \in {"projectId", "clientEmail", "privateKey"} :
       admin' = [admin EXCEPT !.env[v] = ~@, !.last = "none"]
  /\ UNCHANGED AdminRest

NextAdmin ==
  \/ CallInit
  \/ CallGetDb
  \/ SetEnv

SpecAdmin == InitAdmin /\ [][NextAdmin]_vars

\* C39: over any sequence of initFirebaseAdmin and getDb calls initializeApp
\* succeeds at most once; once the app is there a call returns without
\* initializing and leaves the same app; a call made while a variable of the
\* environment is missing throws and leaves the app null, and a later call
\* with the environment complete initializes it unless the credential throws
C39_InitializedOnce ==
  [][ admin'.calls = admin.calls + 1 =>
        /\ admin'.inits <= 1
        /\ admin.app # NoApp =>
             admin'.app = admin.app /\ admin'.inits = admin.inits /\ admin'.last # "threw"
        /\ (admin.app = NoApp /\ ~EnvComplete(admin.env)) =>
             admin'.last = "threw" /\ admin'.app = NoApp /\ admin'.inits = 0
        /\ (admin.app = NoApp /\ EnvComplete(admin.env)) =>
             \/ admin'.app # NoApp /\ admin'.inits = 1
             \/ admin'.last = "threw" /\ admin'.app = NoApp
    ]_vars

C39_Witness ==
  /\ admin.calls = 3 /\ admin.inits = 1 /\ admin.app # NoApp /\ admin.last = "db"

(***************************************************************************)
(* The ratings-based weekly-event generator (pages/api/weekly-event-       *)
(* generate.ts, part_004).                                                 *)
(***************************************************************************)
MaxDocs == 4

\* ranked.slice(0, 80)
topLimit == 80

\* oneJan.getUTCDay(), for a year that starts on a Thursday
JanFirstDay == 4

\* the documents of the ratings collection: two films, a document without tmdbId
RatingDocs ==
  {[tmdbId |-> 1, overall |-> 4], [tmdbId |-> 2, overall |-> 8],
   [tmdbId |-> NoId, overall |-> 8]}

\* statsMap: ratingsSnap.forEach(...), in the order of first insertion
RECURSIVE StatsOf(_)
StatsOf(docs) ==
  IF docs = <<>> THEN <<>>
  ELSE LET prev == StatsOf(SubSeq(docs, 1, Len(docs) - 1))
           d == docs[Len(docs)]
       IN IF d.tmdbId = NoId THEN prev
          ELSE IF \E i \in DOMAIN prev : prev[i].tmdbId = d.tmdbId
          THEN [i \in DOMAIN prev |->
                  IF prev[i].tmdbId = d.tmdbId
                  THEN [prev[i] EXCEPT !.sum = @ + d.overall, !.count = @ + 1]
                  ELSE prev[i]]
          ELSE Append(prev, [tmdbId |-> d.tmdbId, sum |-> d.overall, count |-> 1])

\* a ranking of every film that was voted
AnyVotes(x) == x.count >= 1

\* .filter((x) => x.count >= 2)
EnoughVotes(x) == x.count >= 2

\* a.avg >= b.avg, with avg = sum / count
AvgAtLeast(a, b) == a.sum * b.count >= b.sum * a.count

\* ranked.sort((a, b) => b.avg - a.avg): stable, by non-increasing average
RECURSIVE SortRanked(_)
SortRanked(list) ==
  IF list = <<>> THEN <<>>
  ELSE LET rest == SortRanked(SubSeq(list, 1, Len(list) - 1))
           x == list[Len(list)]
           before == SelectSeq(rest, LAMBDA y : AvgAtLeast(y, x))
           after == SelectSeq(rest, LAMBDA y : ~AvgAtLeast(y, x))
       IN before \o <<x>> \o after

\* topForPrompt
RankedOf(docs) == Slice(SortRanked(SelectSeq(StatsOf(docs), EnoughVotes)), topLimit)

\* parsed.candidates[i]: null, a blank title, no aiPitch, two complete ones
PitchPool ==
  {[isObj |-> FALSE, title |-> Null, aiPitch |-> Null],
   [isObj |-> TRUE, title |-> tBlank, aiPitch |-> rReason],
   [isObj |-> TRUE, title |-> tAlphaYear, aiPitch |-> Null],
   [isObj |-> TRUE, title |-> tBeta, aiPitch |-> rReason]}

\* the generative call: fetch throws, the answer is not ok, or the parsed payload
GenAnswers ==
  {[kind |-> k, theme |-> Null, intro |-> Null, candidates |-> <<>>] :
     k \in {"throws", "notok"}}
  \cup {[kind |-> "json", theme |-> t[1], intro |-> t[2], candidates |-> l] :
          t \in {<<tAlpha, tAlpha>>, <<tBlank, tAlpha>>, <<tAlpha, Null>>},
          l \in SeqsUpTo(PitchPool, MaxCands)}

\* the id searchMovieOnTmdb returns: none, a film of the ranking, a new film
GenFound == {NoId, 2, 5}

\* Math.ceil(((+now - +oneJan) / 86400000 + oneJan.getUTCDay() + 1) / 7),
\* for an instant t in hours since the first of January
WeekIdOf(t) ==
  (t + HoursPerDay * (JanFirstDay + 1) + (7 * HoursPerDay - 1)) \div (7 * HoursPerDay)

\* req.query.secret || (req.body && req.body.secret); "" is an absent secret
SecretFromReq(r) == IF r.query # "" THEN r.query ELSE r.body

\* a check that lets a request without secret through
UnauthorizedIfGiven(r, e) ==
  e.secret # "" /\ SecretFromReq(r) # "" /\ SecretFromReq(r) # e.secret

\* if (expectedSecret && secretFromReq !== expectedSecret)
Unauthorized(r, e) == e.secret # "" /\ SecretFromReq(r) # e.secret

GenOf(r, e, docs, answer) ==
  [pc |-> "start", req |-> r, env |-> e, docs |-> docs, answer |-> answer,
   ranked |-> <<>>, raw |-> <<>>, i |-> 1, found |-> {}, enriched |-> <<>>,
   effects |-> <<>>, status |-> 0]

GenRequests == [method : {"POST", "GET"}, query : {"", "s", "x"}, body : {"", "s", "x"}]

InitRatings ==
  /\ gen \in {GenOf([method |-> "POST", query |-> "", body |-> ""],
                    [secret |-> "", gemini |-> k[1], tmdb |-> k[2]], d, a) :
                k \in {<<TRUE, TRUE>>, <<FALSE, TRUE>>, <<TRUE, FALSE>>},
                d \in SeqsUpTo(RatingDocs, MaxDocs), a \in GenAnswers}
  /\ admin \in {AdminOf(e) : e \in {f \in FirebaseEnvs : EnvComplete(f)}}
  /\ clock \in {c \in Clocks : c.zone = "utc" /\ c.now = 12}
  /\ StoreEmpty
  /\ chat = <<>> /\ runs = <<>>
  /\ OthersOff

GenRest == <<chat, runs, ovars>>

GenEnds(status) == [gen EXCEPT !.pc = "done", !.status = status]

\* the method, the secret, GEMINI_API_KEY, then initFirebaseAdmin() and getDb()
GenStart ==
  /\ gen.pc = "start"
  /\ \E certOk \in BOOLEAN :
       LET a == getDb(initFirebaseAdmin(admin, certOk), certOk)
       IN IF gen.req.method # "POST" THEN gen' = GenEnds(405) /\ admin' = admin
          ELSE IF Unauthorized(gen.req, gen.env) THEN gen' = GenEnds(401) /\ admin' = admin
          ELSE IF ~gen.env.gemini THEN gen' = GenEnds(500) /\ admin' = admin
          ELSE /\ admin' = a
               /\ gen' = IF a.last = "threw" THEN GenEnds(500)
                         ELSE [gen EXCEPT !.pc = "read"]
  /\ UNCHANGED <<weeklyEvents, writes, clock, GenRest>>

\* await db.collection("ratings").get(), statsMap, ranked, topForPrompt
GenRead ==
  /\ gen.pc = "read"
  /\ \/ gen' = [GenEnds(500) EXCEPT !.effects = Append(@, "read")]
     \/ gen' = IF RankedOf(gen.docs) = <<>>
               THEN [GenEnds(400) EXCEPT !.effects = Append(@, "read")]
               ELSE [gen EXCEPT !.pc = "gemini", !.ranked = RankedOf(gen.docs),
                                !.effects = Append(@, "read")]
  /\ UNCHANGED <<weeklyEvents, writes, clock, admin, GenRest>>

\* the generative call, the parse, theme, intro, candidatesRaw.slice(0, 3)
GenGemini ==
  /\ gen.pc = "gemini"
  /\ LET a == gen.answer
         g == [gen EXCEPT !.effects = Append(@, "gemini")]
     IN gen' = IF a.kind # "json" THEN [g EXCEPT !.pc = "done", !.status = 500]
               ELSE IF TextOf(a.theme) = <<>> \/ TextOf(a.intro) = <<>> \/ a.candidates = <<>>
               THEN [g EXCEPT !.pc = "done", !.status = 500]
               ELSE [g EXCEPT !.pc = "enrich", !.raw = Slice(a.candidates, eventCandidates)]
  /\ UNCHANGED <<weeklyEvents, writes, clock, admin, GenRest>>

\* one turn of for (const c of raw): the search (a throw is caught), the
\* rankedIds check, fetchMovieBasicFromTmdb (a throw ends the request)
GenEnrich ==
  /\ gen.pc = "enrich"
  /\ gen.i <= Len(gen.raw)
  /\ LET c == gen.raw[gen.i]
         next == [gen EXCEPT !.i = @ + 1]
     IN IF ~c.isObj THEN gen' = GenEnds(500)
        ELSE IF TextOf(c.title) = <<>> \/ TextOf(c.aiPitch) = <<>> THEN gen' = next
        ELSE IF ~gen.env.tmdb THEN gen' = next
        ELSE \E id \in GenFound :
               LET searched == [next EXCEPT !.effects = Append(@, "search"),
                                            !.found = @ \cup {id}]
               IN IF id = NoId \/ id \in {x.tmdbId : x \in Range(gen.ranked)}
                  THEN gen' = searched
                  ELSE \/ gen' = [searched EXCEPT !.pc = "done", !.status = 500,
                                                  !.effects = Append(@, "movie")]
                       \/ gen' = [searched EXCEPT
                                    !.effects = Append(@, "movie"),
                                    !.enriched = Append(@, [tmdbId |-> id,
                                                            aiPitch |-> TextOf(c.aiPitch),
                                                            at |-> gen.i])]
  /\ UNCHANGED <<weeklyEvents, writes, clock, admin, GenRest>>

\* if (!enriched.length) 500; eventId, eventDoc and
\* await db.collection("weeklyEvents").doc(eventId).set(eventDoc)
GenPersist ==
  /\ gen.pc = "enrich"
  /\ gen.i > Len(gen.raw)
  /\ LET eventDoc == [eventId |-> WeekIdOf(clock.now), createdAt |-> clock.now,
                      startVoteDate |-> clock.now,
                      endVoteDate |-> clock.now + 4 * HoursPerDay,
                      status |-> "voting", theme |-> TextOf(gen.answer.theme),
                      aiIntro |-> TextOf(gen.answer.intro), candidates |-> gen.enriched]
     IN IF gen.enriched = <<>>
        THEN gen' = GenEnds(500) /\ UNCHANGED <<weeklyEvents, writes>>
        ELSE \/ /\ gen' = [GenEnds(200) EXCEPT !.effects = Append(@, "write")]
                /\ weeklyEvents' = (eventDoc.eventId :> eventDoc) @@ weeklyEvents
                /\ writes' = Append(writes, [run |-> 1, today |-> clock.now,
                                             event |-> eventDoc])
             \/ /\ gen' = [GenEnds(500) EXCEPT !.effects = Append(@, "write")]
                /\ UNCHANGED <<weeklyEvents, writes>>
  /\ UNCHANGED <<clock, admin, GenRest>>

NextRatings ==
  \/ GenStart
  \/ GenRead
  \/ GenGemini
  \/ GenEnrich
  \/ GenPersist

SpecRatings == InitRatings /\ [][NextRatings]_vars

\* C35: in the ratings-based generator every candidate of a persisted event
\* carries an id that a search of this run returned and that is the id of
\* no film of the ranking; the ranking holds only films with at least two
\* valid votes, by non-increasing average; and no persisted event has zero
\* candidates
C35_EnrichedCandidates ==
  /\ \A w \in DOMAIN writes :
       LET cs == writes[w].event.candidates
       IN /\ cs # <<>>
          /\ \A j \in DOMAIN cs :
               /\ cs[j].tmdbId # NoId
               /\ cs[j].tmdbId \in gen.found
               /\ \A x \in Range(gen.ranked) : x.tmdbId # cs[j].tmdbId
          /\ weeklyEvents[writes[w].event.eventId].candidates = cs
  /\ \A k \in DOMAIN gen.ranked :
       /\ Cardinality({d \in DOMAIN gen.docs : gen.docs[d].tmdbId = gen.ranked[k].tmdbId}) >= 2
       /\ gen.ranked[k].count
            = Cardinality({d \in DOMAIN gen.docs : gen.docs[d].tmdbId = gen.ranked[k].tmdbId})
       /\ \A h \in DOMAIN gen.ranked :
            k < h => gen.ranked[k].sum * gen.ranked[h].count
                       >= gen.ranked[h].sum * gen.ranked[k].count

C35_Witness ==
  /\ gen.pc = "done" /\ gen.status = 200 /\ Len(writes) = 1
  /\ Len(gen.ranked) = 2 /\ gen.docs[1].tmdbId = 1
  /\ gen.ranked[1].tmdbId = 2
  /\ gen.found = {2, 5}
  /\ Len(writes[1].event.candidates) = 1

(***************************************************************************)
(* The same generator under every request and every WEEKLY_EVENT_SECRET.   *)
(***************************************************************************)
InitSecret ==
  /\ gen \in {GenOf(r, [secret |-> x, gemini |-> TRUE, tmdb |-> TRUE],
                    <<[tmdbId |-> 1, overall |-> 4], [tmdbId |-> 1, overall |-> 4]>>,
                    [kind |-> "json", theme |-> tAlpha, intro |-> tAlpha,
                     candidates |-> <<[isObj |-> TRUE, title |-> tBeta,
                                       aiPitch |-> rReason]>>]) :
                r \in GenRequests, x \in {"", "s"}}
  /\ admin \in {AdminOf(e) : e \in {f \in FirebaseEnvs : f.projectId /\ f.clientEmail}}
  /\ clock \in {c \in Clocks : c.zone = "utc"}
  /\ StoreEmpty
  /\ chat = <<>> /\ runs = <<>>
  /\ OthersOff

SpecSecret == InitSecret /\ [][NextRatings]_vars

\* C38: with WEEKLY_EVENT_SECRET set, a POST whose query secret and body
\* secret both differ from it does nothing but answer 401: no database
\* read, no generative or catalog call, no write, no initialization; and
\* 401 is the answer only to such a mismatch, so that without a configured
\* secret no POST is refused for its secret
C38_SecretBeforeEffects ==
  /\ (/\ gen.req.method = "POST" /\ gen.env.secret # ""
      /\ gen.req.query # gen.env.secret /\ gen.req.body # gen.env.secret)
       => /\ gen.pc = "done" => gen.status = 401
          /\ gen.effects = <<>> /\ StoreEmpty /\ admin.app = NoApp /\ admin.last = "none"
  /\ gen.status = 401
       => /\ gen.env.secret # ""
          /\ gen.req.query # gen.env.secret
          /\ gen.req.query # "" \/ gen.req.body # gen.env.secret
  /\ (gen.req.method = "POST" /\ gen.env.secret = "" /\ gen.pc = "done")
       => gen.status # 401 /\ (admin.last = "threw" \/ gen.effects # <<>>)

C38_Witness ==
  /\ gen.pc = "done" /\ gen.status = 401
  /\ gen.req.query = "" /\ gen.req.body = "x"
  /\ gen.effects = <<>> /\ StoreEmpty

====
